---------------------------- MODULE Spec2Model ----------------------------
(***************************************************************************)
(* Model of Firmware/MotorControl/motor.cpp: the arm/disarm state machine, *)
(* the double-buffered PWM commit protocol, the timer-update interrupt     *)
(* handler and the two calibration routines with their control laws.       *)
(*                                                                         *)
(* Numbers.  The firmware computes in float.  The model computes exactly   *)
(* on scaled integers, with one distinguished value NaN that every         *)
(* arithmetic operation propagates and every comparison answers FALSE on,  *)
(* as IEEE-754 does.  Units are chosen so that the quantities the code     *)
(* multiplies by are 1:                                                    *)
(*   - one ADC count above mid-scale is one unit of phase current          *)
(*     (phase_current_from_adcval);                                        *)
(*   - current_meas_, I_leak_ are kept in thirds of that unit, because the *)
(*     code subtracts I_leak_ / 3;                                         *)
(*   - I_bus_ is kept in sixths, because the duty cycles are halves;       *)
(*   - voltages are in units of kI * current_meas_period amperes, and      *)
(*     (2/3) * vbus_voltage is one voltage unit when vbus is known;        *)
(*   - time is counted in timer update periods.                            *)
(***************************************************************************)
EXTENDS Integers, Sequences, FiniteSets, TLC

VARIABLES
    \* ---- Motor fields
    current_sensor_mask_, is_armed_, control_law_, error_, counting_down_,
    DC_calib_, dc_calib_running_since_, current_meas_, I_leak_, I_bus_,
    last_update_timestamp_, is_calibrated_, phase_resistance, phase_inductance,
    \* ---- timer registers (timer_->Instance)
    AOE, MOE, UIF, DIR, CCR,
    \* ---- collaborators
    brake_resistor_armed, vbus_voltage, requested_state_,
    \* ---- the calibration routines' stack frames
    pc, poll_i, success, rlaw, llaw,
    \* ---- the stack frames of run_calibration and of an arm() in progress
    run, arming,
    \* ---- the processor's interrupt mask
    PRIMASK,
    \* ---- measurement laws constructed when rlaw and llaw were last reset
    twin,
    \* ---- observation: the operation that made the last step and what it called
    last, log,
    \* ---- which of the collaborators are at work in this run
    profile

vars == << current_sensor_mask_, is_armed_, control_law_, error_, counting_down_,
           DC_calib_, dc_calib_running_since_, current_meas_, I_leak_, I_bus_,
           last_update_timestamp_, is_calibrated_, phase_resistance, phase_inductance,
           AOE, MOE, UIF, DIR, CCR,
           brake_resistor_armed, vbus_voltage, requested_state_,
           pc, poll_i, success, rlaw, llaw, run, arming, PRIMASK, twin,
           last, log, profile >>

-----------------------------------------------------------------------------
(* Floats *)

NaN == -9999

isnan(x) == x = NaN

fadd(a, b) == IF isnan(a) \/ isnan(b) THEN NaN ELSE a + b
fsub(a, b) == IF isnan(a) \/ isnan(b) THEN NaN ELSE a - b
fmul(a, b) == IF isnan(a) \/ isnan(b) THEN NaN ELSE a * b
fneg(a) == IF isnan(a) THEN NaN ELSE 0 - a
fabs(a) == IF isnan(a) THEN NaN ELSE IF a < 0 THEN 0 - a ELSE a
fgt(a, b) == ~isnan(a) /\ ~isnan(b) /\ a > b
flt(a, b) == ~isnan(a) /\ ~isnan(b) /\ a < b

-----------------------------------------------------------------------------
(* Motor::Error flags; error_ is the set of the flags that are set *)

ERROR_NONE == "ERROR_NONE"
ERROR_PHASE_RESISTANCE_OUT_OF_RANGE == "ERROR_PHASE_RESISTANCE_OUT_OF_RANGE"
ERROR_PHASE_INDUCTANCE_OUT_OF_RANGE == "ERROR_PHASE_INDUCTANCE_OUT_OF_RANGE"
ERROR_DRV_FAULT == "ERROR_DRV_FAULT"
ERROR_CONTROL_DEADLINE_MISSED == "ERROR_CONTROL_DEADLINE_MISSED"
ERROR_BRAKE_RESISTOR_DISARMED == "ERROR_BRAKE_RESISTOR_DISARMED"
ERROR_TIMER_UPDATE_MISSED == "ERROR_TIMER_UPDATE_MISSED"
ERROR_CURRENT_SENSE_SATURATION == "ERROR_CURRENT_SENSE_SATURATION"
ERROR_CURRENT_LIMIT_VIOLATION == "ERROR_CURRENT_LIMIT_VIOLATION"
ERROR_I_LEAK_OUT_OF_RANGE == "ERROR_I_LEAK_OUT_OF_RANGE"
ERROR_I_BUS_OUT_OF_RANGE == "ERROR_I_BUS_OUT_OF_RANGE"
ERROR_UNKNOWN_VBUS_VOLTAGE == "ERROR_UNKNOWN_VBUS_VOLTAGE"
ERROR_CONTROLLER_FAILED == "ERROR_CONTROLLER_FAILED"
ERROR_CONTROLLER_INITIALIZING == "ERROR_CONTROLLER_INITIALIZING"

-----------------------------------------------------------------------------
(* Control laws.  nullptr, the two measurement laws of this file (objects  *)
(* on the stack of the calibration routines) and the production controller *)
(* installed by the axis.                                                  *)

nullptr == "nullptr"
RLaw == "ResistanceMeasurementCotnrolLaw"
LLaw == "InductanceMeasurementCotnrolLaw"
ExtLaw == "ExternalControlLaw"

-----------------------------------------------------------------------------
(* The whole state as one record, so that a method is a function from the  *)
(* state before the call to the state after it.                            *)

Cur == [ current_sensor_mask_ |-> current_sensor_mask_,
         is_armed_ |-> is_armed_, control_law_ |-> control_law_, error_ |-> error_,
         counting_down_ |-> counting_down_, DC_calib_ |-> DC_calib_,
         dc_calib_running_since_ |-> dc_calib_running_since_,
         current_meas_ |-> current_meas_, I_leak_ |-> I_leak_, I_bus_ |-> I_bus_,
         last_update_timestamp_ |-> last_update_timestamp_,
         is_calibrated_ |-> is_calibrated_,
         phase_resistance |-> phase_resistance, phase_inductance |-> phase_inductance,
         AOE |-> AOE, MOE |-> MOE, UIF |-> UIF, DIR |-> DIR, CCR |-> CCR,
         brake_resistor_armed |-> brake_resistor_armed, vbus_voltage |-> vbus_voltage,
         requested_state_ |-> requested_state_,
         pc |-> pc, poll_i |-> poll_i, success |-> success, rlaw |-> rlaw, llaw |-> llaw,
         run |-> run, arming |-> arming, PRIMASK |-> PRIMASK,
         log |-> << >> ]

Commit(s) ==
    /\ current_sensor_mask_' = s.current_sensor_mask_
    /\ is_armed_' = s.is_armed_
    /\ control_law_' = s.control_law_
    /\ error_' = s.error_
    /\ counting_down_' = s.counting_down_
    /\ DC_calib_' = s.DC_calib_
    /\ dc_calib_running_since_' = s.dc_calib_running_since_
    /\ current_meas_' = s.current_meas_
    /\ I_leak_' = s.I_leak_
    /\ I_bus_' = s.I_bus_
    /\ last_update_timestamp_' = s.last_update_timestamp_
    /\ is_calibrated_' = s.is_calibrated_
    /\ phase_resistance' = s.phase_resistance
    /\ phase_inductance' = s.phase_inductance
    /\ AOE' = s.AOE
    /\ MOE' = s.MOE
    /\ UIF' = s.UIF
    /\ DIR' = s.DIR
    /\ CCR' = s.CCR
    /\ brake_resistor_armed' = s.brake_resistor_armed
    /\ vbus_voltage' = s.vbus_voltage
    /\ requested_state_' = s.requested_state_
    /\ pc' = s.pc
    /\ poll_i' = s.poll_i
    /\ success' = s.success
    /\ rlaw' = s.rlaw
    /\ llaw' = s.llaw
    /\ run' = s.run
    /\ arming' = s.arming
    /\ PRIMASK' = s.PRIMASK
    /\ log' = s.log

\* what the operation called, in order
Ev(s, e) == [s EXCEPT !.log = Append(@, e)]

-----------------------------------------------------------------------------
(* Timer hardware *)

\* An update event: the timer raises the update flag, reverses its counting
\* direction, and, with automatic output enable set, sets master output enable.
update_event(s) ==
    Ev([s EXCEPT !.UIF = TRUE, !.DIR = ~@, !.MOE = (@ \/ s.AOE)], "update_event")

-----------------------------------------------------------------------------
(* Brake resistor *)

update_brake_current(s) == Ev(s, "update_brake_current")

-----------------------------------------------------------------------------
(* Arm / disarm and the PWM commit *)

\* disarm() that leaves the automatic output enable as it is
disarm_keeps_AOE(s) ==
    LET s1 == Ev(s, "disarm")
        s2 == IF s1.is_armed_ THEN Ev(s1, "set_enabled(false)") ELSE s1
        s3 == [s2 EXCEPT !.is_armed_ = FALSE, !.MOE = FALSE,
                         !.control_law_ = nullptr]
    IN  update_brake_current(s3)

\* disarm() that disables the gate driver whether or not the motor is armed
disarm_always_disables(s) ==
    LET s1 == Ev(Ev(s, "disarm"), "set_enabled(false)")
        s2 == [s1 EXCEPT !.is_armed_ = FALSE, !.AOE = FALSE, !.MOE = FALSE,
                         !.control_law_ = nullptr]
    IN  update_brake_current(s2)

\* lines 228-249
disarm(s) ==
    LET s1 == Ev(s, "disarm")
        s2 == IF s1.is_armed_ THEN Ev(s1, "set_enabled(false)") ELSE s1
        s3 == [s2 EXCEPT !.is_armed_ = FALSE, !.AOE = FALSE, !.MOE = FALSE,
                         !.control_law_ = nullptr]
        \* was_armed points at the caller's variable or at dummy: never null
        was_armed_ptr_nonnull == TRUE
    IN  IF was_armed_ptr_nonnull THEN update_brake_current(s3) ELSE s3

\* disarm_with_error() that assigns the flag instead of or-ing it in
disarm_with_error_overwrites(s, error) ==
    LET s1 == Ev([s EXCEPT !.error_ = {error}], error)
    IN  update_brake_current(disarm(s1))

\* lines 294-298; the log names the flag
disarm_with_error(s, error) ==
    LET s1 == Ev([s EXCEPT !.error_ = @ \cup {error}], error)
    IN  update_brake_current(disarm(s1))

ResistanceReset(l) == [l EXCEPT !.test_voltage_ = 0, !.test_mod_ = NaN]

InductanceReset(l) == [l EXCEPT !.attached_ = FALSE]

control_law_reset(s) ==
    IF s.control_law_ = nullptr THEN s
    ELSE LET s1 == Ev(s, "reset")
         IN  IF s.control_law_ = RLaw THEN [s1 EXCEPT !.rlaw = ResistanceReset(@)]
             ELSE IF s.control_law_ = LLaw THEN [s1 EXCEPT !.llaw = InductanceReset(@)]
             ELSE s1

\* arm() that does not install its argument
arm_keeps_control_law(s, control_law) ==
    LET s1 == Ev(s, "arm")
        s2 == control_law_reset(s1)
    IN  IF s2.brake_resistor_armed THEN [s2 EXCEPT !.is_armed_ = TRUE] ELSE s2

\* arm() that does not ask whether the brake resistor is armed
arm_ignores_brake(s, control_law) ==
    LET s1 == [Ev(s, "arm") EXCEPT !.control_law_ = control_law]
        s2 == control_law_reset(s1)
    IN  [s2 EXCEPT !.is_armed_ = TRUE]

\* lines 162-179
arm(s, control_law) ==
    LET s1 == [Ev(s, "arm") EXCEPT !.control_law_ = control_law]
        s2 == control_law_reset(s1)
    IN  IF s2.brake_resistor_armed THEN [s2 EXCEPT !.is_armed_ = TRUE] ELSE s2

\* the frame of an arm() call: where it is, its argument, and how often it
\* has called reset()
NotArming == [pc |-> "idle", control_law |-> nullptr, resets |-> 0]

\* CRITICAL_SECTION() { ... }: the interrupts are masked while the block
\* runs, so the update interrupt stays pending until the block is left
CRITICAL_SECTION_enter(s) == [s EXCEPT !.PRIMASK = TRUE]
CRITICAL_SECTION_leave(s) == [s EXCEPT !.PRIMASK = FALSE]

\* an arm() without its critical section
arm_enter_unmasked(s, control_law) ==
    [Ev(s, "arm") EXCEPT
        !.arming = [pc |-> "install", control_law |-> control_law, resets |-> 0]]

\* lines 162-163
arm_enter(s, control_law) ==
    [CRITICAL_SECTION_enter(Ev(s, "arm")) EXCEPT
        !.arming = [pc |-> "install", control_law |-> control_law, resets |-> 0]]

\* line 164
arm_install(s) ==
    [s EXCEPT !.control_law_ = s.arming.control_law, !.arming.pc = "reset"]

\* lines 169-171
arm_reset(s) ==
    IF s.control_law_ = nullptr THEN [s EXCEPT !.arming.pc = "flag"]
    ELSE [control_law_reset(s) EXCEPT !.arming.pc = "flag", !.arming.resets = @ + 1]

\* lines 175-177
arm_flag(s) ==
    IF s.brake_resistor_armed
    THEN [s EXCEPT !.is_armed_ = TRUE, !.arming.pc = "exit"]
    ELSE [s EXCEPT !.arming.pc = "exit"]

\* lines 178-181: the critical section ends, arm() returns
arm_exit(s) == [CRITICAL_SECTION_leave(s) EXCEPT !.arming.pc = "idle"]

\* apply_pwm_timings() that does not look at the update flag after the write
apply_pwm_timings_unchecked(s, timings, tentative, event) ==
    LET called == Ev(s, IF tentative THEN "apply_pwm_timings(tentative)"
                     ELSE "apply_pwm_timings")
        brake_check(t) ==
            IF ~t.brake_resistor_armed
            THEN disarm_with_error(t, ERROR_BRAKE_RESISTOR_DISARMED) ELSE t
        write(t) == Ev([t EXCEPT !.CCR = timings], "CCR")
        enable(t) ==
            IF ~tentative /\ t.is_armed_
            THEN Ev([t EXCEPT !.AOE = TRUE], "AOE") ELSE t
        timer(t) == IF event THEN update_event(t) ELSE t
    IN  Ev(timer(enable(write(brake_check(called)))), "return")

\* apply_pwm_timings() that asks for the brake resistor after the write
apply_pwm_timings_brake_late(s, timings, tentative, event) ==
    LET called == Ev(s, IF tentative THEN "apply_pwm_timings(tentative)"
                     ELSE "apply_pwm_timings")
        brake_check(t) ==
            IF ~t.brake_resistor_armed
            THEN disarm_with_error(t, ERROR_BRAKE_RESISTOR_DISARMED) ELSE t
        write(t) == Ev([t EXCEPT !.CCR = timings], "CCR")
        enable(t) ==
            IF ~tentative /\ t.is_armed_
            THEN Ev([t EXCEPT !.AOE = TRUE], "AOE") ELSE t
        timer(t) == IF event THEN update_event(t) ELSE t
        flag_check(t) ==
            IF t.UIF
            THEN disarm_with_error(Ev(t, "TIM_FLAG_UPDATE"),
                                   ERROR_CONTROL_DEADLINE_MISSED)
            ELSE t
    IN  Ev(flag_check(timer(brake_check(enable(write(called))))), "return")

\* apply_pwm_timings() that sets the automatic output enable on a tentative
\* write too
apply_pwm_timings_always_AOE(s, timings, tentative, event) ==
    LET called == Ev(s, IF tentative THEN "apply_pwm_timings(tentative)"
                     ELSE "apply_pwm_timings")
        brake_check(t) ==
            IF ~t.brake_resistor_armed
            THEN disarm_with_error(t, ERROR_BRAKE_RESISTOR_DISARMED) ELSE t
        write(t) == Ev([t EXCEPT !.CCR = timings], "CCR")
        enable(t) ==
            IF t.is_armed_
            THEN Ev([t EXCEPT !.AOE = TRUE], "AOE") ELSE t
        timer(t) == IF event THEN update_event(t) ELSE t
        flag_check(t) ==
            IF t.UIF
            THEN disarm_with_error(Ev(t, "TIM_FLAG_UPDATE"),
                                   ERROR_CONTROL_DEADLINE_MISSED)
            ELSE t
    IN  Ev(flag_check(timer(enable(write(brake_check(called))))), "return")

\* lines 190-219.  event: whether a timer update event happens while the
\* registers are written
apply_pwm_timings(s, timings, tentative, event) ==
    LET called == Ev(s, IF tentative THEN "apply_pwm_timings(tentative)"
                     ELSE "apply_pwm_timings")
        brake_check(t) ==
            IF ~t.brake_resistor_armed
            THEN disarm_with_error(t, ERROR_BRAKE_RESISTOR_DISARMED) ELSE t
        write(t) == Ev([t EXCEPT !.CCR = timings], "CCR")
        enable(t) ==
            IF ~tentative /\ t.is_armed_
            THEN Ev([t EXCEPT !.AOE = TRUE], "AOE") ELSE t
        timer(t) == IF event THEN update_event(t) ELSE t
        flag_check(t) ==
            IF t.UIF
            THEN disarm_with_error(Ev(t, "TIM_FLAG_UPDATE"),
                                   ERROR_CONTROL_DEADLINE_MISSED)
            ELSE t
    IN  Ev(flag_check(timer(enable(write(brake_check(called))))), "return")


-----------------------------------------------------------------------------
(* Configuration and board constants, in the model's units *)

\* timer compare value of a 50% duty cycle; CCR counts in units of it
HalfPeriod == 1

\* ADC codes: 0 .. 2 * AdcMid, and the value that stands for "no sample"
AdcMid == 2
AdcUnavailable == 99
CURRENT_ADC_LOWER_BOUND == 1
CURRENT_ADC_UPPER_BOUND == 3

\* config_.dc_calib_tau * 7.5, in timer update periods; tau is below the
\* calibration period, so that calib_filter_k = min(period / tau, 1) = 1
DcCalibTrustTime == 3
\* max_dc_calib_, in units of current
MaxDcCalib == 1
\* config_.I_leak_max, in units of current
ILeakMax == 1
\* effective_current_lim_ + config_.current_lim_margin, in units of current
Itrip == 1
\* config_.I_bus_hard_max = -config_.I_bus_hard_min, in sixths of a unit
IBusHardMax == 2

-----------------------------------------------------------------------------
(* Bounds of the model *)

\* last_update_timestamp_ is a uint32 that wraps; the model keeps TsBits bits
TsBits == 2

\* dc_calib_running_since_ is only ever compared with DcCalibTrustTime: the
\* model stops counting CalibSlack periods above it
CalibSlack == 1
\* the polling loops of the calibration routines run 3000 and 1250 times
MaxPoll == 1
\* the inductance law's ripple sum is kept within -MaxDeltaI .. MaxDeltaI
MaxDeltaI == 2
\* error flags that are set at a time
MaxErrors == 2

TsMod == 2 ^ TsBits

-----------------------------------------------------------------------------
(* Current sensing *)

adc_out_of_bounds(adc) ==
    adc # AdcUnavailable
      /\ (adc < CURRENT_ADC_LOWER_BOUND \/ adc > CURRENT_ADC_UPPER_BOUND)

phase_current_from_adcval(ADCValue) == ADCValue - AdcMid

\* lines 491-503: the three bounds checks, in order
check_adc(s, adc) ==
    LET check(t, i) ==
            IF adc_out_of_bounds(adc[i])
            THEN disarm_with_error(t, ERROR_CURRENT_SENSE_SATURATION) ELSE t
    IN  check(check(check(s, 1), 2), 3)

\* the codes after the checks: one out of bounds counts as no sample
checked_adc(adc) ==
    [i \in 1..3 |-> IF adc_out_of_bounds(adc[i]) THEN AdcUnavailable ELSE adc[i]]

adc_to_current(adc) ==
    [i \in 1..3 |-> IF adc[i] # AdcUnavailable
                    THEN phase_current_from_adcval(adc[i]) ELSE NaN]

\* a reconstruction that forgets the sign
infer_missing_current_sum(mask, current) ==
    IF mask = 6 THEN [current EXCEPT ![1] = fadd(current[2], current[3])]
    ELSE IF mask = 5 THEN [current EXCEPT ![2] = fadd(current[3], current[1])]
    ELSE IF mask = 3 THEN [current EXCEPT ![3] = fadd(current[1], current[2])]
    ELSE current

\* lines 512-518, the masks in binary: 110, 101, 011, 111
infer_missing_current(mask, current) ==
    IF mask = 6 THEN [current EXCEPT ![1] = fneg(fadd(current[2], current[3]))]
    ELSE IF mask = 5 THEN [current EXCEPT ![2] = fneg(fadd(current[3], current[1]))]
    ELSE IF mask = 3 THEN [current EXCEPT ![3] = fneg(fadd(current[1], current[2]))]
    ELSE current

is_current_valid(current) ==
    ~isnan(current[1]) /\ ~isnan(current[2]) /\ ~isnan(current[3])

Min(a, b) == IF a < b THEN a ELSE b

\* a calibration half that keeps its estimate when the current is invalid
dc_calib_step_keeps(s, current, current_valid) ==
    IF current_valid
    THEN [s EXCEPT !.DC_calib_ = current,
                   !.dc_calib_running_since_ =
                       Min(@ + 2, DcCalibTrustTime + CalibSlack)]
    ELSE s

\* lines 528-544; the calibration period is two timer update periods
dc_calib_step(s, current, current_valid) ==
    IF current_valid
    THEN [s EXCEPT !.DC_calib_ = current,
                   !.dc_calib_running_since_ =
                       Min(@ + 2, DcCalibTrustTime + CalibSlack)]
    ELSE [s EXCEPT !.DC_calib_ = <<0, 0, 0>>, !.dc_calib_running_since_ = 0]

\* offsets that are trusted as soon as they are small
is_dc_calib_valid_at_once(s) ==
    /\ flt(fabs(s.DC_calib_[1]), MaxDcCalib)
    /\ flt(fabs(s.DC_calib_[2]), MaxDcCalib)
    /\ flt(fabs(s.DC_calib_[3]), MaxDcCalib)

\* lines 547-550
is_dc_calib_valid(s) ==
    /\ s.dc_calib_running_since_ >= DcCalibTrustTime
    /\ flt(fabs(s.DC_calib_[1]), MaxDcCalib)
    /\ flt(fabs(s.DC_calib_[2]), MaxDcCalib)
    /\ flt(fabs(s.DC_calib_[3]), MaxDcCalib)

\* lines 552-565; current_meas_ is kept in thirds: 3 * (current - I_leak_ / 3)
measure_current(s, current, current_valid) ==
    IF current_valid /\ is_dc_calib_valid(s)
    THEN LET c == [i \in 1..3 |-> current[i] - s.DC_calib_[i]]
             leak == c[1] + c[2] + c[3]
         IN  [s EXCEPT !.I_leak_ = leak,
                       !.current_meas_ = [i \in 1..3 |-> 3 * c[i] - leak]]
    ELSE [s EXCEPT !.I_leak_ = NaN, !.current_meas_ = <<NaN, NaN, NaN>>]

SQ(x) == fmul(x, x)

\* line 581: 2/3 * sum of squares > Itrip^2, with the currents in thirds
current_limit_violated(s) ==
    fgt(fmul(2, fadd(fadd(SQ(s.current_meas_[1]), SQ(s.current_meas_[2])),
                     SQ(s.current_meas_[3]))),
        27 * Itrip * Itrip)


-----------------------------------------------------------------------------
(* The measurement control laws *)

\* (2/3) * vbus_voltage when the bus voltage is known
VbusKnown == 1

\* 1 / ((2/3) * vbus_voltage)
vfactor(vbus) == IF isnan(vbus) THEN NaN ELSE 1

NewResistanceLaw == [test_current_ |-> 0, max_voltage_ |-> 0,
                     test_voltage_ |-> 0, test_mod_ |-> NaN]

\* lines 24-40
ResistanceOnMeasurement(l, vbus, Ialpha) ==
    LET tv == fadd(l.test_voltage_, fsub(l.test_current_, Ialpha))
    IN  IF fgt(fabs(tv), l.max_voltage_)
        THEN [law |-> [l EXCEPT !.test_voltage_ = NaN],
              err |-> ERROR_PHASE_RESISTANCE_OUT_OF_RANGE]
        ELSE IF isnan(vbus)
        THEN [law |-> [l EXCEPT !.test_voltage_ = tv],
              err |-> ERROR_UNKNOWN_VBUS_VOLTAGE]
        ELSE [law |-> [l EXCEPT !.test_voltage_ = tv,
                                !.test_mod_ = fmul(tv, vfactor(vbus))],
              err |-> ERROR_NONE]

\* lines 42-48: an error, or the alpha component of the modulation
ResistanceOutput(l) ==
    IF isnan(l.test_mod_)
    THEN [ok |-> FALSE, error |-> ERROR_CONTROLLER_INITIALIZING, mod |-> NaN]
    ELSE [ok |-> TRUE, error |-> ERROR_NONE, mod |-> l.test_mod_]

NewInductanceLaw == [test_voltage_ |-> 0, attached_ |-> FALSE,
                     start_timestamp_ |-> 0, last_Ialpha_ |-> NaN,
                     last_input_timestamp_ |-> 0, deltaI_ |-> 0]

\* lines 73-92
InductanceOnMeasurement(l, vbus, Ialpha, input_timestamp) ==
    IF isnan(Ialpha) \/ isnan(vbus)
    THEN [law |-> l, err |-> ERROR_UNKNOWN_VBUS_VOLTAGE]
    ELSE LET sign == IF l.test_voltage_ >= 0 THEN 1 ELSE -1
             l1 == IF l.attached_
                   THEN [l EXCEPT !.deltaI_ =
                            fadd(@, fmul(0 - sign, fsub(Ialpha, l.last_Ialpha_)))]
                   ELSE [l EXCEPT !.start_timestamp_ = input_timestamp,
                                  !.attached_ = TRUE]
         IN  [law |-> [l1 EXCEPT !.last_Ialpha_ = Ialpha,
                                 !.last_input_timestamp_ = input_timestamp],
              err |-> ERROR_NONE]

\* lines 94-100: the law after the call, and the alpha component
InductanceOutput(l, vbus) ==
    LET tv == 0 - l.test_voltage_
    IN  [law |-> [l EXCEPT !.test_voltage_ = tv], mod |-> fmul(tv, vfactor(vbus))]

\* the result of get_output: an error, or three duty cycles in halves (0, 1, 2)
ControllerError(e) == [ok |-> FALSE, error |-> e, timings |-> <<1, 1, 1>>]
ControllerOutput(d) == [ok |-> TRUE, error |-> ERROR_NONE, timings |-> d]

\* AlphaBetaFrameController::get_output: space vector modulation of (mod, 0)
\* into three duty cycles; there are none for NaN
SVM(mod) ==
    IF isnan(mod) THEN ControllerError(ERROR_CONTROLLER_FAILED)
    ELSE IF mod = 0 THEN ControllerOutput(<<1, 1, 1>>)
    ELSE IF mod > 0 THEN ControllerOutput(<<0, 1, 1>>)
    ELSE ControllerOutput(<<2, 1, 1>>)

\* control_law_->on_measurement(vbus_voltage, current_meas_, timestamp); the
\* Clarke transform makes Ialpha the phase A current.  ext_err is what the
\* production controller answers.
on_measurement(s, ext_err) ==
    LET s1 == Ev(s, "on_measurement")
        Ialpha == s.current_meas_[1]
    IN  IF s.control_law_ = RLaw
        THEN LET r == ResistanceOnMeasurement(s.rlaw, s.vbus_voltage, Ialpha)
             IN  [s |-> [s1 EXCEPT !.rlaw = r.law], err |-> r.err]
        ELSE IF s.control_law_ = LLaw
        THEN LET r == InductanceOnMeasurement(s.llaw, s.vbus_voltage, Ialpha,
                                              s.last_update_timestamp_)
             IN  [s |-> [s1 EXCEPT !.llaw = r.law], err |-> r.err]
        ELSE [s |-> s1, err |-> ext_err]

\* control_law_->get_output(timestamp); ext_out is what the production
\* controller answers
get_output(s, ext_out) ==
    LET s1 == Ev(s, "get_output")
    IN  IF s.control_law_ = RLaw
        THEN LET o == ResistanceOutput(s.rlaw)
             IN  [s |-> s1, res |-> IF o.ok THEN SVM(o.mod)
                                    ELSE ControllerError(o.error)]
        ELSE IF s.control_law_ = LLaw
        THEN LET o == InductanceOutput(s.llaw, s.vbus_voltage)
             IN  [s |-> [s1 EXCEPT !.llaw = o.law], res |-> SVM(o.mod)]
        ELSE [s |-> s1, res |-> ext_out]


-----------------------------------------------------------------------------
(* The timer update interrupt *)

HalfTimings == <<HalfPeriod, HalfPeriod, HalfPeriod>>

\* lines 546-593, the current sense half: in.fast says that do_fast_checks
\* disarms the motor, in.ext_meas is the production controller's answer
current_sense_step(s, current, current_valid, in) ==
    LET leak_check(t) ==
            IF fgt(fabs(t.I_leak_), ILeakMax)
            THEN disarm_with_error(t, ERROR_I_LEAK_OUT_OF_RANGE) ELSE t
        fast_checks(t) == IF in.fast THEN disarm(Ev(t, "do_fast_checks")) ELSE t
        limit_check(t) ==
            IF current_limit_violated(t)
            THEN disarm_with_error(t, ERROR_CURRENT_LIMIT_VIOLATION) ELSE t
        answered(r) == IF r.err # ERROR_NONE THEN disarm_with_error(r.s, r.err) ELSE r.s
        feed(t) == IF t.control_law_ # nullptr
                   THEN answered(on_measurement(t, in.ext_meas)) ELSE t
    IN  feed(limit_check(fast_checks(leak_check(
            measure_current(s, current, current_valid)))))

\* line 609, in sixths: the duty cycles are halves, the currents thirds
bus_current(pwm_timings, meas) ==
    fadd(fadd(fmul(1 - pwm_timings[1], meas[1]),
              fmul(1 - pwm_timings[2], meas[2])),
         fmul(1 - pwm_timings[3], meas[3]))

\* lines 611-615: duty cycle times TIM_1_8_PERIOD_CLOCKS
next_timings(pwm_timings) == [i \in 1..3 |-> pwm_timings[i] * HalfPeriod]

\* what the log keeps of the else-if branch of lines 618-625: the value of
\* control_law_result and the master output enable bit read at line 619
ResultMark(e) == "control_law_result " \o e
MOEMark(moe) == IF moe THEN "BDTR.MOE set" ELSE "BDTR.MOE clear"

\* a PWM update half that tolerates an initializing controller whatever the
\* master output enable bit says
update_pwm_step_tolerant(s, in) ==
    LET timer(t) == IF in.ev_mid THEN update_event(t) ELSE t
        ask(t) == IF t.control_law_ # nullptr
                  THEN get_output(t, in.ext_out)
                  ELSE [s |-> t, res |-> ControllerError(ERROR_CONTROLLER_FAILED)]
        \* r.s is the motor when the control law has answered r.res
        use(r) ==
            LET failed(t) ==
                    IF r.res.error = ERROR_CONTROLLER_INITIALIZING
                    THEN t
                    ELSE disarm_with_error(t, r.res.error)
                commit(t) ==
                    IF t.is_armed_ /\ r.res.ok
                    THEN apply_pwm_timings(t, next_timings(r.res.timings),
                                           FALSE, in.ev2)
                    ELSE IF t.is_armed_
                    THEN failed(Ev(Ev(t, ResultMark(r.res.error)), MOEMark(t.MOE)))
                    ELSE t
                i_bus(t) == IF r.s.is_armed_ /\ r.res.ok /\ t.is_armed_
                            THEN bus_current(r.res.timings, r.s.current_meas_)
                            ELSE 0
                store(t) == [t EXCEPT !.I_bus_ = i_bus(t)]
                bus_check(t) ==
                    IF flt(t.I_bus_, 0 - IBusHardMax) \/ fgt(t.I_bus_, IBusHardMax)
                    THEN disarm_with_error(t, ERROR_I_BUS_OUT_OF_RANGE) ELSE t
            IN  update_brake_current(bus_check(store(commit(r.s))))
    IN  use(ask(timer(s)))

\* lines 595-640, the PWM update half: in.ev_mid and in.ev2 say that a timer
\* update event happens before the control law is asked, and during the commit
update_pwm_step(s, in) ==
    LET timer(t) == IF in.ev_mid THEN update_event(t) ELSE t
        ask(t) == IF t.control_law_ # nullptr
                  THEN get_output(t, in.ext_out)
                  ELSE [s |-> t, res |-> ControllerError(ERROR_CONTROLLER_FAILED)]
        \* r.s is the motor when the control law has answered r.res
        use(r) ==
            LET failed(t) ==
                    IF ~t.MOE /\ r.res.error = ERROR_CONTROLLER_INITIALIZING
                    THEN t
                    ELSE disarm_with_error(t, r.res.error)
                commit(t) ==
                    IF t.is_armed_ /\ r.res.ok
                    THEN apply_pwm_timings(t, next_timings(r.res.timings),
                                           FALSE, in.ev2)
                    ELSE IF t.is_armed_
                    THEN failed(Ev(Ev(t, ResultMark(r.res.error)), MOEMark(t.MOE)))
                    ELSE t
                i_bus(t) == IF r.s.is_armed_ /\ r.res.ok /\ t.is_armed_
                            THEN bus_current(r.res.timings, r.s.current_meas_)
                            ELSE 0
                store(t) == [t EXCEPT !.I_bus_ = i_bus(t)]
                bus_check(t) ==
                    IF flt(t.I_bus_, 0 - IBusHardMax) \/ fgt(t.I_bus_, IBusHardMax)
                    THEN disarm_with_error(t, ERROR_I_BUS_OUT_OF_RANGE) ELSE t
            IN  update_brake_current(bus_check(store(commit(r.s))))
    IN  use(ask(timer(s)))

\* tim_update_cb() that goes on after it has found an update missed
tim_update_cb_goes_on(s, in) ==
    LET stamp(t) == [Ev(t, "tim_update_cb") EXCEPT
                        !.last_update_timestamp_ = (@ + 1) % TsMod]
        current == infer_missing_current(s.current_sensor_mask_,
                                         adc_to_current(checked_adc(in.adc)))
        current_valid == is_current_valid(current)
        \* t.counting_down_ is the direction the handler has just read
        halves(t) ==
            LET should_update_pwm == t.counting_down_
                was_current_dc_calib == t.counting_down_
                was_current_sense == ~t.counting_down_
                tentative(u) ==
                    IF should_update_pwm
                    THEN apply_pwm_timings(u, HalfTimings, TRUE, in.ev1) ELSE u
                calib(u) ==
                    IF was_current_dc_calib
                    THEN dc_calib_step(u, current, current_valid) ELSE u
                sense(u) ==
                    IF was_current_sense
                    THEN current_sense_step(u, current, current_valid, in) ELSE u
                pwm(u) == IF should_update_pwm THEN update_pwm_step(u, in) ELSE u
            IN  pwm(sense(calib(check_adc(tentative(t), in.adc))))
        direction(t) ==
            IF t.counting_down_ = t.DIR
            THEN halves(disarm_with_error(t, ERROR_TIMER_UPDATE_MISSED))
            ELSE halves([t EXCEPT !.counting_down_ = t.DIR])
    IN  direction(stamp(s))

\* tim_update_cb() that returns once a fault has disarmed the motor
tim_update_cb_returns_on_fault(s, in) ==
    LET stamp(t) == [Ev(t, "tim_update_cb") EXCEPT
                        !.last_update_timestamp_ = (@ + 1) % TsMod]
        current == infer_missing_current(s.current_sensor_mask_,
                                         adc_to_current(checked_adc(in.adc)))
        current_valid == is_current_valid(current)
        \* t.counting_down_ is the direction the handler has just read
        halves(t) ==
            LET should_update_pwm == t.counting_down_
                was_current_dc_calib == t.counting_down_
                was_current_sense == ~t.counting_down_
                tentative(u) ==
                    IF should_update_pwm
                    THEN apply_pwm_timings(u, HalfTimings, TRUE, in.ev1) ELSE u
                calib(u) ==
                    IF was_current_dc_calib
                    THEN dc_calib_step(u, current, current_valid) ELSE u
                sense(u) ==
                    IF was_current_sense
                    THEN current_sense_step(u, current, current_valid, in) ELSE u
                pwm(u) == IF should_update_pwm THEN update_pwm_step(u, in) ELSE u
                checked == check_adc(tentative(t), in.adc)
            IN  IF \E i \in DOMAIN checked.log : checked.log[i] = "disarm"
                THEN checked
                ELSE pwm(sense(calib(checked)))
        direction(t) ==
            IF t.counting_down_ = t.DIR
            THEN disarm_with_error(t, ERROR_TIMER_UPDATE_MISSED)
            ELSE halves([t EXCEPT !.counting_down_ = t.DIR])
    IN  direction(stamp(s))

\* lines 462-641.  in: the ADC codes and what the hardware and the
\* collaborators do meanwhile
tim_update_cb(s, in) ==
    LET stamp(t) == [Ev(t, "tim_update_cb") EXCEPT
                        !.last_update_timestamp_ = (@ + 1) % TsMod]
        current == infer_missing_current(s.current_sensor_mask_,
                                         adc_to_current(checked_adc(in.adc)))
        current_valid == is_current_valid(current)
        \* t.counting_down_ is the direction the handler has just read
        halves(t) ==
            LET should_update_pwm == t.counting_down_
                was_current_dc_calib == t.counting_down_
                was_current_sense == ~t.counting_down_
                tentative(u) ==
                    IF should_update_pwm
                    THEN apply_pwm_timings(u, HalfTimings, TRUE, in.ev1) ELSE u
                calib(u) ==
                    IF was_current_dc_calib
                    THEN dc_calib_step(u, current, current_valid) ELSE u
                sense(u) ==
                    IF was_current_sense
                    THEN current_sense_step(u, current, current_valid, in) ELSE u
                pwm(u) == IF should_update_pwm THEN update_pwm_step(u, in) ELSE u
            IN  pwm(sense(calib(check_adc(tentative(t), in.adc))))
        direction(t) ==
            IF t.counting_down_ = t.DIR
            THEN disarm_with_error(t, ERROR_TIMER_UPDATE_MISSED)
            ELSE halves([t EXCEPT !.counting_down_ = t.DIR])
    IN  direction(stamp(s))

\* lines 300-309; ready is gate_driver_.is_ready()
do_checks(s, ready) ==
    IF ~ready THEN disarm_with_error(Ev(s, "do_checks"), ERROR_DRV_FAULT)
    ELSE Ev(s, "do_checks")


-----------------------------------------------------------------------------
(* The calibration routines, a step at a time: the interrupt and the other *)
(* threads run between the steps.                                          *)

AXIS_STATE_UNDEFINED == "AXIS_STATE_UNDEFINED"
AXIS_STATE_IDLE == "AXIS_STATE_IDLE"

\* a float quotient kept exact: <<n, d>> is n / d, <<n, 0>> an infinity and
\* <<0, 0>> or a NaN operand not a number
fdiv(n, d) == IF isnan(n) \/ isnan(d) THEN <<0, 0>> ELSE <<n, d>>

isnan_quotient(q) == q[1] = 0 /\ q[2] = 0

\* lo <= q <= hi
quotient_in(q, lo, hi) ==
    IF q[2] > 0 THEN lo * q[2] <= q[1] /\ q[1] <= hi * q[2]
    ELSE IF q[2] < 0 THEN lo * q[2] >= q[1] /\ q[1] >= hi * q[2]
    ELSE FALSE

\* test_voltage_ / test_current_
get_resistance(l) == fdiv(l.test_voltage_, l.test_current_)

\* abs(test_voltage_) / (deltaI_ / dt), dt the uint32 difference of the stamps
get_inductance(l) ==
    LET dt == (l.last_input_timestamp_ - l.start_timestamp_) % TsMod
    IN  fdiv(fmul(fabs(l.test_voltage_), dt), l.deltaI_)

\* the band 2e-6 .. 4000e-6 of line 426, in the model's units
InductanceMin == 1
InductanceMax == 2

\* lines 368-372
measure_phase_resistance_begin(s, test_current, max_voltage) ==
    LET s1 == [s EXCEPT !.rlaw = [NewResistanceLaw EXCEPT
                                     !.test_current_ = test_current,
                                     !.max_voltage_ = max_voltage]]
    IN  [arm(s1, RLaw) EXCEPT !.pc = "R_poll", !.poll_i = 0]

\* lines 403-406
measure_phase_inductance_begin(s, test_voltage) ==
    LET s1 == [s EXCEPT !.llaw = [NewInductanceLaw EXCEPT
                                     !.test_voltage_ = test_voltage]]
    IN  [arm(s1, LLaw) EXCEPT !.pc = "L_poll", !.poll_i = 0]

\* lines 374-379 and 408-413: one turn of the loop; the loops run 3000 and
\* 1250 times, the model's MaxPoll times
poll(s, next_pc) ==
    IF s.poll_i < MaxPoll /\ s.requested_state_ = AXIS_STATE_UNDEFINED /\ s.is_armed_
    THEN [Ev(s, "osDelay") EXCEPT !.poll_i = @ + 1]
    ELSE [s EXCEPT !.pc = next_pc]

\* lines 381 and 415
read_success(s, next_pc) == [s EXCEPT !.success = s.is_armed_, !.pc = next_pc]

\* a routine that leaves the motor as it finds it after the loop
calibration_disarm_skipped(s, next_pc) == [s EXCEPT !.pc = next_pc]

\* lines 387 and 421
calibration_disarm(s, next_pc) == [disarm(s) EXCEPT !.pc = next_pc]

\* lines 389-398
measure_phase_resistance_end(s) ==
    LET s1 == [s EXCEPT !.phase_resistance = get_resistance(s.rlaw)]
        s2 == IF isnan_quotient(s1.phase_resistance)
              THEN [disarm_with_error(s1, ERROR_PHASE_RESISTANCE_OUT_OF_RANGE)
                       EXCEPT !.success = FALSE]
              ELSE s1
    IN  [s2 EXCEPT !.pc = "idle"]

\* lines 423-431
measure_phase_inductance_end(s) ==
    LET s1 == [s EXCEPT !.phase_inductance = get_inductance(s.llaw)]
        s2 == IF ~quotient_in(s1.phase_inductance, InductanceMin, InductanceMax)
              THEN [Ev(s1, ERROR_PHASE_INDUCTANCE_OUT_OF_RANGE) EXCEPT
                       !.error_ = @ \cup {ERROR_PHASE_INDUCTANCE_OUT_OF_RANGE},
                       !.success = FALSE]
              ELSE s1
    IN  [s2 EXCEPT !.pc = "idle"]

\* config_.motor_type: the three types run_calibration knows, and any other
MOTOR_TYPE_HIGH_CURRENT == "MOTOR_TYPE_HIGH_CURRENT"
MOTOR_TYPE_GIMBAL == "MOTOR_TYPE_GIMBAL"
MOTOR_TYPE_ACIM == "MOTOR_TYPE_ACIM"
MOTOR_TYPE_OTHER == "MOTOR_TYPE_OTHER"

\* run_calibration's frame while it is not running, and while it waits for
\* the measurement m ("R" or "L") with its local R_calib_max_voltage
NotCalibrating == [pc |-> "idle", R_calib_max_voltage |-> 0]
Calibrating(m, v) == [pc |-> m, R_calib_max_voltage |-> v]

\* lines 254-259; the gains are not part of the model
update_current_controller_gains(s) == Ev(s, "update_current_controller_gains")

\* what run_calibration returns
run_calibration_return(s, value) ==
    Ev([s EXCEPT !.run = NotCalibrating],
       IF value THEN "run_calibration: true" ELSE "run_calibration: false")

\* lines 452-455
run_calibration_succeed(s) ==
    run_calibration_return(
        [update_current_controller_gains(s) EXCEPT !.is_calibrated_ = TRUE], TRUE)

\* lines 439-450, up to the call of measure_phase_resistance
run_calibration_begin(s, motor_type, calibration_current, max_voltage) ==
    IF motor_type = MOTOR_TYPE_HIGH_CURRENT \/ motor_type = MOTOR_TYPE_ACIM
    THEN [measure_phase_resistance_begin(Ev(s, "run_calibration"),
                                         calibration_current, max_voltage)
             EXCEPT !.run = Calibrating("R", max_voltage)]
    ELSE IF motor_type = MOTOR_TYPE_GIMBAL
    THEN run_calibration_succeed(Ev(s, "run_calibration"))
    ELSE run_calibration_return(Ev(s, "run_calibration"), FALSE)

\* the control law objects live in the frames of the two measurements
resistance_law_gone(s) == [s EXCEPT !.rlaw = NewResistanceLaw]
inductance_law_gone(s) == [s EXCEPT !.llaw = NewInductanceLaw]

\* a calibration that measures the inductance whatever the resistance
\* measurement returned
run_calibration_after_resistance_goes_on(s) ==
    [measure_phase_inductance_begin(resistance_law_gone(s),
                                    s.run.R_calib_max_voltage)
        EXCEPT !.run = Calibrating("L", s.run.R_calib_max_voltage)]

\* lines 442-444: measure_phase_resistance has returned s.success
run_calibration_after_resistance(s) ==
    IF ~s.success THEN run_calibration_return(resistance_law_gone(s), FALSE)
    ELSE [measure_phase_inductance_begin(resistance_law_gone(s),
                                         s.run.R_calib_max_voltage)
             EXCEPT !.run = Calibrating("L", s.run.R_calib_max_voltage)]

\* lines 444-455: measure_phase_inductance has returned s.success
run_calibration_after_inductance(s) ==
    IF ~s.success THEN run_calibration_return(inductance_law_gone(s), FALSE)
    ELSE run_calibration_succeed(inductance_law_gone(s))


-----------------------------------------------------------------------------
(* Inputs *)

\* ADC codes of one interrupt.  While the timer counts down the phases carry
\* no current: all codes at mid-scale, or two sensors without a sample
ZeroAdc == { <<AdcMid, AdcMid, AdcMid>> }
CalibAdc == ZeroAdc \cup { <<AdcUnavailable, AdcUnavailable, AdcMid>> }

\* while it counts up: a current through A that returns through B and C or
\* not at all, one through A and B, one that leaks, codes outside the window
SenseAdc == ZeroAdc \cup
            { <<AdcMid + 1, AdcMid, AdcMid>>,
              <<AdcMid + 1, AdcMid - 1, AdcMid>>,
              <<AdcMid + 1, AdcMid + 1, AdcMid>>,
              <<0, AdcMid, AdcMid>>,
              <<AdcMid, AdcMid, 2 * AdcMid>> }

\* compare values an outside caller of apply_pwm_timings writes
TimingInputs == { <<0, HalfPeriod, 2 * HalfPeriod>> }

\* what the production controller answers to get_output
ExtOutputs == { ControllerOutput(<<0, 1, 2>>),
                ControllerError(ERROR_CONTROLLER_INITIALIZING),
                ControllerError(ERROR_CONTROLLER_FAILED) }

\* arguments of the calibration routines: test current (in thirds of a unit),
\* voltage cap, test voltage
TestCurrents == { 3 }
MaxVoltages == { 0, 3 }
TestVoltages == { 1 }

\* the configuration run_calibration reads: motor_type, calibration_current and
\* resistance_calib_max_voltage
MotorTypes == { MOTOR_TYPE_HIGH_CURRENT, MOTOR_TYPE_GIMBAL, MOTOR_TYPE_ACIM,
                MOTOR_TYPE_OTHER }
CalibrationCurrents == { 1 }
CalibrationVoltages == { 0, 1 }

-----------------------------------------------------------------------------
(* Actions *)

\* the model follows a run while no more than MaxErrors flags are set and the
\* ripple sum of the inductance law is within MaxDeltaI
Bounded ==
    /\ Cardinality(error_') <= MaxErrors
    /\ llaw'.deltaI_ \in -MaxDeltaI .. MaxDeltaI

\* every step records the operation that makes it
Called(op, arg, tentative) ==
    /\ last' = [op |-> op, arg |-> arg, tentative |-> tentative]
    /\ profile' = profile
    /\ twin' = twin
    /\ Bounded

\* no law has been reset yet
NoTwin == [rlaw |-> NewResistanceLaw, llaw |-> NewInductanceLaw,
           rlaw_reset |-> FALSE, llaw_reset |-> FALSE]

\* the state after construction
InitMotor ==
    /\ is_armed_ = FALSE
    /\ control_law_ = nullptr
    /\ error_ = {}
    /\ counting_down_ = FALSE
    /\ DC_calib_ = <<0, 0, 0>>
    /\ dc_calib_running_since_ = 0
    /\ current_meas_ = <<0, 0, 0>>
    /\ I_leak_ = 0
    /\ I_bus_ = 0
    /\ last_update_timestamp_ = 0
    /\ is_calibrated_ = FALSE
    /\ phase_resistance = <<0, 1>>
    /\ phase_inductance = <<0, 1>>
    /\ AOE = FALSE
    /\ MOE = FALSE
    /\ UIF = FALSE
    /\ DIR = FALSE
    /\ CCR = <<0, 0, 0>>
    /\ vbus_voltage = VbusKnown
    /\ requested_state_ = AXIS_STATE_UNDEFINED
    /\ pc = "idle"
    /\ poll_i = 0
    /\ success = FALSE
    /\ rlaw = NewResistanceLaw
    /\ llaw = NewInductanceLaw
    /\ run = NotCalibrating
    /\ arming = NotArming
    /\ PRIMASK = FALSE
    /\ twin = NoTwin
    /\ last = [op |-> "Motor", arg |-> nullptr, tentative |-> FALSE]
    /\ log = << >>

\* arm() a statement at a time, for what an interrupt may see of it: the
\* thread enters the critical section, installs the control law, resets it,
\* sets the flag and leaves
ArmSteps(Laws) ==
    \/ /\ arming.pc = "idle"
       /\ \E cl \in Laws :
             /\ Commit(arm_enter(Cur, cl))
             /\ Called("arm", cl, FALSE)
    \/ /\ arming.pc = "install"
       /\ Commit(arm_install(Cur))
       /\ Called("arm: install", arming.control_law, FALSE)
    \/ /\ arming.pc = "reset"
       /\ Commit(arm_reset(Cur))
       /\ Called("arm: reset", arming.control_law, FALSE)
    \/ /\ arming.pc = "flag"
       /\ Commit(arm_flag(Cur))
       /\ Called("arm: flag", arming.control_law, FALSE)
    \/ /\ arming.pc = "exit"
       /\ Commit(arm_exit(Cur))
       /\ Called("arm: return", arming.control_law, FALSE)

\* a thread calls arm(); the thread that runs a calibration routine is busy
Arm(Laws) ==
    /\ pc = "idle"
    /\ \E cl \in Laws :
          /\ Commit(arm(Cur, cl))
          /\ Called("arm", cl, FALSE)

Disarm ==
    /\ Commit(disarm(Cur))
    /\ Called("disarm", nullptr, FALSE)

ApplyPwmTimings ==
    \E timings \in TimingInputs, tentative \in BOOLEAN, event \in BOOLEAN :
        /\ Commit(apply_pwm_timings(Cur, timings, tentative, event))
        /\ Called("apply_pwm_timings", nullptr, tentative)

DoChecks ==
    \E ready \in BOOLEAN :
        /\ Commit(do_checks(Cur, ready))
        /\ Called("do_checks", nullptr, FALSE)

\* the timer reaches the end of a counting period while nothing writes it
TimerUpdateEvent ==
    /\ Commit(update_event(Cur))
    /\ Called("update_event", nullptr, FALSE)

\* which half the handler is about to run
PwmHalf == DIR # counting_down_ /\ DIR
SenseHalf == DIR # counting_down_ /\ ~DIR

\* the update interrupt: the handler acknowledges the flag and calls
\* tim_update_cb with the ADC codes.  Inputs the half does not read are fixed.
\*   Down, Up: the ADC codes of the two halves;
\*   Events: whether an update event may happen inside the handler;
\*   Fast: whether do_fast_checks may disarm;
\*   Meas, Out: what the production controller may answer
TimUpdateCb(Down, Up, Events, Fast, Meas, Out) ==
    /\ UIF
    /\ \E adc \in IF DIR THEN Down ELSE Up,
          ev1 \in IF PwmHalf THEN Events ELSE {FALSE},
          ev_mid \in IF PwmHalf THEN Events ELSE {FALSE},
          ev2 \in IF PwmHalf THEN Events ELSE {FALSE},
          fast \in IF SenseHalf THEN Fast ELSE {FALSE},
          ext_meas \in IF control_law_ = ExtLaw /\ SenseHalf
                       THEN Meas ELSE {ERROR_NONE},
          ext_out \in IF control_law_ = ExtLaw /\ PwmHalf
                      THEN Out ELSE {ControllerError(ERROR_CONTROLLER_FAILED)} :
          /\ Commit(tim_update_cb([Cur EXCEPT !.UIF = FALSE],
                                  [adc |-> adc, ev1 |-> ev1, ev_mid |-> ev_mid,
                                   ev2 |-> ev2, fast |-> fast,
                                   ext_meas |-> ext_meas, ext_out |-> ext_out]))
          /\ Called("tim_update_cb", adc, FALSE)

MeasurePhaseResistanceBegin(Currents) ==
    /\ pc = "idle" /\ run.pc = "idle"
    /\ \E test_current \in Currents, max_voltage \in MaxVoltages :
          Commit(measure_phase_resistance_begin(Cur, test_current, max_voltage))
    /\ Called("arm", RLaw, FALSE)

MeasurePhaseResistanceSteps ==
    \/ /\ pc = "R_poll"
       /\ Commit(poll(Cur, "R_success"))
       /\ Called("poll", nullptr, FALSE)
    \/ /\ pc = "R_success"
       /\ Commit(read_success(Cur, "R_disarm"))
       /\ Called("success", nullptr, FALSE)
    \/ /\ pc = "R_disarm"
       /\ Commit(calibration_disarm(Cur, "R_end"))
       /\ Called("disarm", nullptr, FALSE)
    \/ /\ pc = "R_end"
       /\ Commit(measure_phase_resistance_end(Cur))
       /\ Called("measure_phase_resistance", nullptr, FALSE)

MeasurePhaseResistance ==
    \/ MeasurePhaseResistanceBegin(TestCurrents)
    \/ MeasurePhaseResistanceSteps

MeasurePhaseInductanceBegin ==
    /\ pc = "idle" /\ run.pc = "idle"
    /\ \E test_voltage \in TestVoltages :
          Commit(measure_phase_inductance_begin(Cur, test_voltage))
    /\ Called("arm", LLaw, FALSE)

MeasurePhaseInductanceSteps ==
    \/ /\ pc = "L_poll"
       /\ Commit(poll(Cur, "L_success"))
       /\ Called("poll", nullptr, FALSE)
    \/ /\ pc = "L_success"
       /\ Commit(read_success(Cur, "L_disarm"))
       /\ Called("success", nullptr, FALSE)
    \/ /\ pc = "L_disarm"
       /\ Commit(calibration_disarm(Cur, "L_end"))
       /\ Called("disarm", nullptr, FALSE)
    \/ /\ pc = "L_end"
       /\ Commit(measure_phase_inductance_end(Cur))
       /\ Called("measure_phase_inductance", nullptr, FALSE)

MeasurePhaseInductance ==
    \/ MeasurePhaseInductanceBegin
    \/ MeasurePhaseInductanceSteps

\* a thread calls run_calibration(); the configuration is what the user has
\* set.  The routine goes on when the measurement it has called has returned
RunCalibration ==
    \/ /\ pc = "idle" /\ run.pc = "idle"
       /\ \E motor_type \in MotorTypes, calibration_current \in CalibrationCurrents,
             max_voltage \in CalibrationVoltages :
             /\ Commit(run_calibration_begin(Cur, motor_type, calibration_current,
                                             max_voltage))
             /\ Called("run_calibration", motor_type, FALSE)
    \/ /\ pc = "idle" /\ run.pc = "R"
       /\ Commit(run_calibration_after_resistance(Cur))
       /\ Called("run_calibration", "R", FALSE)
    \/ /\ pc = "idle" /\ run.pc = "L"
       /\ Commit(run_calibration_after_inductance(Cur))
       /\ Called("run_calibration", "L", FALSE)

\* the collaborators: the brake resistor is armed or disarmed
BrakeResistor ==
    /\ Commit([Cur EXCEPT !.brake_resistor_armed = ~@])
    /\ Called("brake_resistor", nullptr, FALSE)

\* the bus voltage becomes known or unknown
VbusVoltage ==
    /\ Commit([Cur EXCEPT !.vbus_voltage = IF isnan(@) THEN VbusKnown ELSE NaN])
    /\ Called("vbus_voltage", nullptr, FALSE)

\* the axis is asked for another state
RequestedState ==
    /\ Commit([Cur EXCEPT !.requested_state_ =
                  IF @ = AXIS_STATE_UNDEFINED THEN AXIS_STATE_IDLE
                  ELSE AXIS_STATE_UNDEFINED])
    /\ Called("requested_state", nullptr, FALSE)

\* the error flags are cleared from outside
ClearErrors ==
    /\ error_ # {}
    /\ Commit([Cur EXCEPT !.error_ = {}])
    /\ Called("clear_errors", nullptr, FALSE)

\* The measurement laws as objects of their own: a caller constructs a law,
\* configures it, and calls reset, on_measurement and get_alpha_beta_output in
\* any order.  From the reset on, twin follows a law constructed at the reset
\* with the configuration the law has then, through the same calls.
LawVbus == { VbusKnown, NaN }
LawIalpha == { 0, 1, NaN }
LawTimestamps == 0 .. TsMod - 1

OnLaw(op, arg) ==
    /\ last' = [op |-> op, arg |-> arg, tentative |-> FALSE]
    /\ profile' = profile
    /\ Bounded
    /\ twin'.llaw.deltaI_ \in -MaxDeltaI .. MaxDeltaI

\* lines 368-371: a law is constructed and configured
ResistanceLawConstruct ==
    /\ profile = "resistance law"
    /\ \E test_current \in TestCurrents, max_voltage \in MaxVoltages :
          Commit([Cur EXCEPT !.rlaw = [NewResistanceLaw EXCEPT
                                          !.test_current_ = test_current,
                                          !.max_voltage_ = max_voltage]])
    /\ twin' = NoTwin
    /\ OnLaw("ResistanceMeasurementCotnrolLaw", RLaw)

\* lines 403-405
InductanceLawConstruct ==
    /\ profile = "inductance law"
    /\ \E test_voltage \in TestVoltages :
          Commit([Cur EXCEPT !.llaw = [NewInductanceLaw EXCEPT
                                          !.test_voltage_ = test_voltage]])
    /\ twin' = NoTwin
    /\ OnLaw("InductanceMeasurementCotnrolLaw", LLaw)

ResistanceLawReset ==
    /\ profile = "resistance law"
    /\ Commit([Cur EXCEPT !.rlaw = ResistanceReset(@)])
    /\ twin' = [twin EXCEPT !.rlaw_reset = TRUE,
                            !.rlaw = [NewResistanceLaw EXCEPT
                                         !.test_current_ = rlaw.test_current_,
                                         !.max_voltage_ = rlaw.max_voltage_]]
    /\ OnLaw("reset", RLaw)

ResistanceLawOnMeasurement ==
    /\ profile = "resistance law"
    /\ \E vbus \in LawVbus, Ialpha \in LawIalpha :
          /\ Commit([Cur EXCEPT !.rlaw = ResistanceOnMeasurement(@, vbus, Ialpha).law])
          /\ twin' = IF twin.rlaw_reset
                     THEN [twin EXCEPT !.rlaw =
                              ResistanceOnMeasurement(@, vbus, Ialpha).law]
                     ELSE twin
          /\ OnLaw("on_measurement", RLaw)

ResistanceLawGetOutput ==
    /\ profile = "resistance law"
    /\ Commit(Ev(Cur, IF ResistanceOutput(rlaw).ok THEN "output"
                      ELSE ResistanceOutput(rlaw).error))
    /\ twin' = twin
    /\ OnLaw("get_alpha_beta_output", RLaw)

InductanceLawReset ==
    /\ profile = "inductance law"
    /\ Commit([Cur EXCEPT !.llaw = InductanceReset(@)])
    /\ twin' = [twin EXCEPT !.llaw_reset = TRUE,
                            !.llaw = [NewInductanceLaw EXCEPT
                                         !.test_voltage_ = llaw.test_voltage_]]
    /\ OnLaw("reset", LLaw)

InductanceLawOnMeasurement ==
    /\ profile = "inductance law"
    /\ \E vbus \in LawVbus, Ialpha \in LawIalpha, ts \in LawTimestamps :
          /\ Commit([Cur EXCEPT !.llaw =
                        InductanceOnMeasurement(@, vbus, Ialpha, ts).law])
          /\ twin' = IF twin.llaw_reset
                     THEN [twin EXCEPT !.llaw =
                              InductanceOnMeasurement(@, vbus, Ialpha, ts).law]
                     ELSE twin
          /\ OnLaw("on_measurement", LLaw)

InductanceLawGetOutput ==
    /\ profile = "inductance law"
    /\ Commit([Cur EXCEPT !.llaw = InductanceOutput(@, vbus_voltage).law])
    /\ twin' = IF twin.llaw_reset
               THEN [twin EXCEPT !.llaw = InductanceOutput(@, vbus_voltage).law]
               ELSE twin
    /\ OnLaw("get_alpha_beta_output", LLaw)

-----------------------------------------------------------------------------
(* Specifications.  Each follows the motor with some of its collaborators  *)
(* at work and the others at rest.                                         *)

\* The arm/disarm state machine and the PWM commit: threads arm, disarm and
\* write timings at any time, update events come at any time, also during a
\* write and before the handler has served the last one, the brake resistor
\* comes and goes; the phases carry no current.
NextPwm ==
    \/ Arm({nullptr, ExtLaw})
    \/ Disarm
    \/ ApplyPwmTimings
    \/ TimerUpdateEvent
    \/ TimUpdateCb(ZeroAdc, ZeroAdc, BOOLEAN, BOOLEAN, {ERROR_NONE}, ExtOutputs)
    \/ BrakeResistor
    \/ ClearErrors

\* the sensor masks tim_update_cb knows (lines 513-518): 011, 101, 110, 111
SensorMasks == {3, 5, 6, 7}

\* a board with three current sensors
Init ==
    /\ InitMotor /\ current_sensor_mask_ = 7
    /\ brake_resistor_armed \in BOOLEAN /\ profile = "pwm"

Next == NextPwm

Spec == Init /\ [][Next]_vars

\* the timer reaches the end of a counting period after the handler has
\* served the last one
TimerUpdateServed == ~UIF /\ TimerUpdateEvent

\* codes of a current through A that returns through B and C, or none
MeasureAdc == ZeroAdc \cup { <<AdcMid + 1, AdcMid, AdcMid>> }

\* Every fault site.  Four scenes, one per run:
\*   "pwm"        the scene of Spec;
\*   "sense"      the production controller is armed, the brake resistor stays
\*                armed, the handler serves every update event in time and
\*                reads currents through the phases; the gate driver reports
\*                faults;
\*   "resistance" a thread runs measure_phase_resistance, the bus voltage is
\*                lost and found;
\*   "inductance" a thread runs measure_phase_inductance, the axis is asked
\*                for another state.
InitFaults ==
    /\ InitMotor /\ current_sensor_mask_ = 7
    /\ profile \in {"pwm", "sense", "resistance", "inductance"}
    /\ brake_resistor_armed \in (IF profile = "pwm" THEN BOOLEAN ELSE {TRUE})

NextFaults ==
    \/ profile = "pwm" /\ Arm({nullptr, ExtLaw})
    \/ profile = "pwm" /\ Disarm
    \/ profile = "pwm" /\ ApplyPwmTimings
    \/ profile = "pwm" /\ TimerUpdateEvent
    \/ profile = "pwm" /\ TimUpdateCb(ZeroAdc, ZeroAdc, BOOLEAN, BOOLEAN,
                                      {ERROR_NONE}, ExtOutputs)
    \/ profile = "pwm" /\ BrakeResistor
    \/ profile = "pwm" /\ ClearErrors
    \/ profile = "sense" /\ Arm({ExtLaw})
    \/ profile = "sense" /\ TimerUpdateServed
    \/ profile = "sense" /\ TimUpdateCb(CalibAdc, SenseAdc, {FALSE}, BOOLEAN,
                                        {ERROR_NONE, ERROR_CONTROLLER_FAILED},
                                        {ControllerOutput(<<0, 1, 2>>)})
    \/ profile = "sense" /\ DoChecks
    \/ profile = "sense" /\ ClearErrors
    \/ profile = "resistance" /\ MeasurePhaseResistance
    \/ profile = "resistance" /\ TimerUpdateServed
    \/ profile = "resistance" /\ TimUpdateCb(ZeroAdc, MeasureAdc, {FALSE}, {FALSE},
                                             {ERROR_NONE}, ExtOutputs)
    \/ profile = "resistance" /\ VbusVoltage
    \/ profile = "inductance" /\ MeasurePhaseInductance
    \/ profile = "inductance" /\ TimerUpdateServed
    \/ profile = "inductance" /\ TimUpdateCb(ZeroAdc, MeasureAdc, {FALSE}, {FALSE},
                                             {ERROR_NONE}, ExtOutputs)
    \/ profile = "inductance" /\ RequestedState

SpecFaults == InitFaults /\ [][NextFaults]_vars


\* Boards with two or three current sensors.  While the timer counts down
\* the ADC delivers mid-scale codes, an offset on A, an offset on B with no
\* sample for A, or a code of A below the window
SensingDownAdc == ZeroAdc \cup
                  { <<AdcMid + 1, AdcMid, AdcMid>>,
                    <<AdcUnavailable, AdcMid - 1, AdcMid>>,
                    <<0, AdcMid, AdcMid>> }

\* while it counts up: a current that returns through B or C, the same on a
\* board that does not sample A, a code of A below the window, two phases
\* without a sample
SensingUpAdc == ZeroAdc \cup
                { <<AdcMid + 1, AdcMid - 1, AdcMid>>,
                  <<AdcUnavailable, AdcMid - 1, AdcMid>>,
                  <<0, AdcMid, AdcMid + 1>>,
                  <<AdcUnavailable, AdcUnavailable, AdcMid>> }

InitSensing ==
    /\ InitMotor /\ current_sensor_mask_ \in SensorMasks
    /\ brake_resistor_armed = TRUE /\ profile = "adc"

NextSensing ==
    \/ Arm({ExtLaw})
    \/ TimerUpdateEvent
    \/ TimUpdateCb(SensingDownAdc, SensingUpAdc, {FALSE}, {FALSE},
                   {ERROR_NONE}, {ControllerOutput(<<0, 1, 2>>)})
    \/ ClearErrors

SpecSensing == InitSensing /\ [][NextSensing]_vars

\* A thread measures the phase resistance, also with no test current, while
\* the handler serves every update event
InitResistance ==
    /\ InitMotor /\ current_sensor_mask_ = 7
    /\ brake_resistor_armed = TRUE /\ profile = "measure"

NextResistance ==
    \/ MeasurePhaseResistanceBegin(TestCurrents \cup {0})
    \/ MeasurePhaseResistanceSteps
    \/ TimerUpdateServed
    \/ TimUpdateCb(ZeroAdc, MeasureAdc, {FALSE}, {FALSE}, {ERROR_NONE}, ExtOutputs)

SpecResistance == InitResistance /\ [][NextResistance]_vars

\* A thread calibrates the motor while the handler serves every update event
InitCalibration ==
    /\ InitMotor /\ current_sensor_mask_ = 7
    /\ brake_resistor_armed = TRUE /\ profile = "calibration"

NextCalibration ==
    \/ RunCalibration
    \/ MeasurePhaseResistanceSteps
    \/ MeasurePhaseInductanceSteps
    \/ TimerUpdateServed
    \/ TimUpdateCb(ZeroAdc, MeasureAdc, {FALSE}, {FALSE}, {ERROR_NONE}, ExtOutputs)

SpecCalibration == InitCalibration /\ [][NextCalibration]_vars

\* A thread arms the motor, again and again and with one control law or
\* another, while the timer runs; the processor takes the update interrupt
\* when the flag is pending and the interrupts are not masked
InitArm ==
    /\ InitMotor /\ current_sensor_mask_ = 7
    /\ brake_resistor_armed = TRUE /\ profile = "arm"

NextArm ==
    \/ ArmSteps({ExtLaw, RLaw})
    \/ TimerUpdateEvent
    \/ ~PRIMASK /\ TimUpdateCb(ZeroAdc, ZeroAdc, {FALSE}, {FALSE}, {ERROR_NONE},
                                ExtOutputs)

SpecArm == InitArm /\ [][NextArm]_vars

\* A caller works with a resistance law or with an inductance law
InitLaws ==
    /\ InitMotor /\ current_sensor_mask_ = 7
    /\ brake_resistor_armed = TRUE
    /\ profile \in { "resistance law", "inductance law" }

NextLaws ==
    \/ ResistanceLawConstruct
    \/ InductanceLawConstruct
    \/ ResistanceLawReset
    \/ ResistanceLawOnMeasurement
    \/ ResistanceLawGetOutput
    \/ InductanceLawReset
    \/ InductanceLawOnMeasurement
    \/ InductanceLawGetOutput

SpecLaws == InitLaws /\ [][NextLaws]_vars

\* A thread measures the phase resistance, or the phase inductance, one run
\* after another, while the handler serves every update event; the brake
\* resistor is armed or it is not, and the axis is asked for another state
InitMeasure ==
    /\ InitMotor /\ current_sensor_mask_ = 7
    /\ brake_resistor_armed \in BOOLEAN
    /\ profile \in {"resistance", "inductance"}

NextMeasure ==
    \/ profile = "resistance" /\ MeasurePhaseResistance
    \/ profile = "inductance" /\ MeasurePhaseInductance
    \/ TimerUpdateServed
    \/ TimUpdateCb(ZeroAdc, MeasureAdc, {FALSE}, {FALSE}, {ERROR_NONE}, ExtOutputs)
    \/ RequestedState

SpecMeasure == InitMeasure /\ [][NextMeasure]_vars

-----------------------------------------------------------------------------
(* What a step called *)

Has(e) == \E i \in DOMAIN log : log[i] = e
Count(e) == Cardinality({i \in DOMAIN log : log[i] = e})
HasNext(e) == \E i \in DOMAIN log' : log'[i] = e

\* the motor was armed when the step disarmed it
WasArmed == Has("set_enabled(false)")

ApplyMarks == {"apply_pwm_timings", "apply_pwm_timings(tentative)"}

\* the end of the apply_pwm_timings call that starts at log[i]
ReturnOf(i) == CHOOSE j \in DOMAIN log : j > i /\ log[j] = "return"
                  /\ \A k \in DOMAIN log : (k > i /\ log[k] = "return") => j <= k

\* the three states of an arm cycle
Disarmed == ~is_armed_
PwmPending == is_armed_ /\ ~MOE
OutputLive == is_armed_ /\ MOE

-----------------------------------------------------------------------------
(* C1: after disarm() returns the motor is disarmed, the automatic output  *)
(* enable and the master output enable are clear and no control law is     *)
(* installed; and as long as nobody calls arm(), no interrupt, update      *)
(* event or apply_pwm_timings call arms the motor or sets either bit.      *)
C1_DisarmHolds ==
    /\ [](last.op = "disarm"
            => ~is_armed_ /\ ~AOE /\ ~MOE /\ control_law_ = nullptr)
    /\ [][ (~is_armed_ /\ ~AOE /\ ~MOE /\ last'.op # "arm")
             => (~is_armed_' /\ ~AOE' /\ ~MOE') ]_vars

\* disarm() has taken the output of an armed motor away
C1_Witness == last.op = "disarm" /\ WasArmed /\ error_ = {}

(* C2: an armed motor has no error flag set.                               *)
C2_ArmedImpliesNoError == is_armed_ => error_ = {}

\* the flags a fault site sets
FaultFlags ==
    { ERROR_PHASE_RESISTANCE_OUT_OF_RANGE, ERROR_PHASE_INDUCTANCE_OUT_OF_RANGE,
      ERROR_DRV_FAULT, ERROR_CONTROL_DEADLINE_MISSED,
      ERROR_BRAKE_RESISTOR_DISARMED, ERROR_TIMER_UPDATE_MISSED,
      ERROR_CURRENT_SENSE_SATURATION, ERROR_CURRENT_LIMIT_VIOLATION,
      ERROR_I_LEAK_OUT_OF_RANGE, ERROR_I_BUS_OUT_OF_RANGE,
      ERROR_UNKNOWN_VBUS_VOLTAGE, ERROR_CONTROLLER_FAILED,
      ERROR_CONTROLLER_INITIALIZING }

(* C3: an operation that detects a fault (a disarm_with_error call site in *)
(* tim_update_cb, apply_pwm_timings, do_checks or measure_phase_resistance,*)
(* or the flag write of measure_phase_inductance) leaves, when it returns, *)
(* the fault's flag set, every flag that was set before still set, and the *)
(* motor disarmed.                                                         *)
C3_FaultSetsFlagAndDisarms ==
    [][ \A e \in FaultFlags :
           HasNext(e) => /\ e \in error_'
                         /\ error_ \subseteq error_'
                         /\ ~is_armed_' ]_vars

\* the handler found too much current in an armed motor that carried a flag
C3_Witness ==
    /\ last.op = "tim_update_cb"
    /\ Has(ERROR_CURRENT_LIMIT_VIOLATION) /\ WasArmed
    /\ Cardinality(error_) = 2

(* C4: an armed motor has a control law installed, whatever arm() was      *)
(* given, a null control law included.                                     *)
C4_ArmedImpliesControlLaw == is_armed_ => control_law_ # nullptr

(* C4, amended: an armed motor has the control law installed that the      *)
(* latest arm() was given: a step that leaves the motor armed is either an *)
(* arm() that installs its argument, or it finds the motor armed and       *)
(* leaves the control law alone.                                           *)
C4_ArmedWithArgument ==
    [][ is_armed_' =>
          IF last'.op = "arm" THEN control_law_' = last'.arg
          ELSE is_armed_ /\ control_law_' = control_law_ ]_vars

\* arm() has armed the motor with a control law
C4_Witness == last.op = "arm" /\ last.arg = ExtLaw /\ is_armed_
                 /\ control_law_ = ExtLaw

(* C5: after arm() with the brake resistor disarmed the motor is not       *)
(* armed, and arm() changes neither output enable bit.                     *)
C5_NotArmedWithoutBrake ==
    [][ last'.op = "arm" =>
          /\ (~brake_resistor_armed => ~is_armed_')
          /\ AOE' = AOE /\ MOE' = MOE ]_vars

(* C5, amended: arm() sets the armed flag only with the brake resistor     *)
(* armed; with the brake resistor disarmed it leaves the flag as it was;   *)
(* and arm() changes neither output enable bit.                            *)
C5_ArmSetsFlagOnlyWithBrake ==
    [][ last'.op = "arm" =>
          /\ (brake_resistor_armed => is_armed_')
          /\ (~brake_resistor_armed => is_armed_' = is_armed_)
          /\ AOE' = AOE /\ MOE' = MOE ]_vars

\* arm() was called with the brake resistor disarmed
C5_Witness == last.op = "arm" /\ ~brake_resistor_armed /\ ~is_armed_
                 /\ control_law_ = ExtLaw

\* the update flag was set when an apply_pwm_timings call of the step ended:
\* the interrupt handler starts with the flag clear, a thread's call may find
\* it set
FlagSetAtEndOfApply ==
    \/ last.op = "apply_pwm_timings" /\ UIF
    \/ \E i, j \in DOMAIN log :
          i < j /\ log[i] = "update_event" /\ log[j] = "return"

(* C6: when the update flag is set at the end of apply_pwm_timings, the    *)
(* motor is disarmed, ERROR_CONTROL_DEADLINE_MISSED is set and the output  *)
(* enable bits are clear, tentative or not.                                *)
C6_LatchDuringWriteDisarms ==
    FlagSetAtEndOfApply =>
        /\ ~is_armed_
        /\ ERROR_CONTROL_DEADLINE_MISSED \in error_
        /\ ~AOE /\ ~MOE

\* an update event fell into a commit that had set the automatic output enable
C6_Witness ==
    /\ last.op = "apply_pwm_timings" /\ ~last.tentative
    /\ \E i, j \in DOMAIN log : i < j /\ log[i] = "AOE" /\ log[j] = "update_event"
    /\ ~AOE /\ ~MOE

(* C7: when apply_pwm_timings is called with the brake resistor disarmed,  *)
(* the motor is disarmed with ERROR_BRAKE_RESISTOR_DISARMED before the     *)
(* compare values are written, and the call does not set the automatic     *)
(* output enable, tentative or not.                                        *)
C7_BrakeCheckedBeforeWrite ==
    ~brake_resistor_armed =>
        \A i \in DOMAIN log : log[i] \in ApplyMarks =>
            /\ log[i + 1] = ERROR_BRAKE_RESISTOR_DISARMED
            /\ log[i + 2] = "disarm"
            /\ \E j \in DOMAIN log : j > i + 2 /\ j < ReturnOf(i) /\ log[j] = "CCR"
            /\ \A j \in DOMAIN log : (i < j /\ j < ReturnOf(i)) =>
                  /\ log[j] # "AOE"
                  /\ (log[j] = "CCR" => j > i + 2)
            /\ ~is_armed_ /\ ~AOE
            /\ ERROR_BRAKE_RESISTOR_DISARMED \in error_

\* a commit found the motor armed and the brake resistor disarmed
C7_Witness ==
    /\ last.op = "apply_pwm_timings" /\ ~last.tentative
    /\ ~brake_resistor_armed /\ WasArmed /\ Has("CCR")

\* a step's log holds a commit that set the automatic output enable
CommitSetsAOE(l) ==
    \E i, j \in DOMAIN l :
        /\ i < j /\ l[i] = "apply_pwm_timings" /\ l[j] = "AOE"
        /\ \A k \in DOMAIN l : (i < k /\ k < j) => l[k] \notin ApplyMarks

(* C8: the automatic output enable is set only by a commit                 *)
(* (apply_pwm_timings, not tentative) on an armed motor, never by a        *)
(* tentative write; the master output goes live only at an update event    *)
(* that finds the bit set on an armed motor; an arm cycle goes from        *)
(* disarmed to PWM pending to output live to disarmed.                     *)
C8_OutputEnableOrder ==
    /\ [](AOE \/ MOE => is_armed_)
    /\ [][ (AOE' /\ ~AOE) => (is_armed_ /\ is_armed_' /\ CommitSetsAOE(log')) ]_vars
    /\ [][ (last'.op = "apply_pwm_timings" /\ last'.tentative) => (AOE' => AOE) ]_vars
    /\ [][ (MOE' /\ ~MOE) => (last'.op = "update_event" /\ AOE /\ is_armed_) ]_vars
    /\ [][ ~(Disarmed /\ OutputLive') /\ ~(OutputLive /\ PwmPending') ]_vars

\* the output of an armed motor went live at an update event
C8_Witness == last.op = "update_event" /\ OutputLive /\ AOE
                 /\ control_law_ = ExtLaw

(* C9: disarm() of a disarmed motor does not call the gate driver's        *)
(* set_enabled(false), and a second disarm() right after a first leaves    *)
(* is_armed_, both output enable bits, control_law_ and error_ as they are *)
C9_DisarmIdempotent ==
    /\ [][ (last'.op = "disarm" /\ ~is_armed_) => ~HasNext("set_enabled(false)") ]_vars
    /\ [][ (last.op = "disarm" /\ last'.op = "disarm") =>
             /\ ~HasNext("set_enabled(false)")
             /\ <<is_armed_, AOE, MOE, control_law_, error_>>'
                  = <<is_armed_, AOE, MOE, control_law_, error_>> ]_vars

\* disarm() was called on a disarmed motor
C9_Witness == last.op = "disarm" /\ ~WasArmed /\ error_ # {}

(* C10: disarm() calls update_brake_current once when the motor was armed  *)
(* and not at all when it was disarmed already.                            *)
C10_BrakeUpdateOnlyIfArmed ==
    last.op = "disarm" =>
        Count("update_brake_current") = (IF WasArmed THEN 1 ELSE 0)


\* what a control law is asked to do
ControlLawCalls == {"reset", "on_measurement", "get_output"}

(* C11: when tim_update_cb finds the counting direction of the call before, *)
(* it disarms with ERROR_TIMER_UPDATE_MISSED and returns: it writes no      *)
(* compare register, leaves the DC calibration and its running time, the    *)
(* measured currents, the bus current and counting_down_ as they are, and   *)
(* calls no control law.                                                    *)
C11_MissedUpdateReturns ==
    [][ HasNext(ERROR_TIMER_UPDATE_MISSED) =>
          /\ last'.op = "tim_update_cb"
          /\ ERROR_TIMER_UPDATE_MISSED \in error_' /\ ~is_armed_'
          /\ \A i \in DOMAIN log' : log'[i] \notin ControlLawCalls \cup ApplyMarks \cup {"CCR"}
          /\ UNCHANGED << CCR, DC_calib_, dc_calib_running_since_, current_meas_,
                          I_leak_, I_bus_, counting_down_ >> ]_vars

\* the handler missed an update of an armed motor whose calibration ran
C11_Witness ==
    /\ last.op = "tim_update_cb" /\ Has(ERROR_TIMER_UPDATE_MISSED) /\ WasArmed
    /\ dc_calib_running_since_ > 0 /\ CCR # <<0, 0, 0>>


-----------------------------------------------------------------------------
(* C12: in the PWM update half, when the motor is armed and the control    *)
(* law's answer is an error (or there is no control law, which counts as   *)
(* ERROR_CONTROLLER_FAILED), the handler reads the master output enable    *)
(* bit; it goes on without disarming only if the error is                  *)
(* ERROR_CONTROLLER_INITIALIZING and the bit is clear, and otherwise       *)
(* disarms the motor with that error.  A motor whose master output enable  *)
(* was set when the handler started is always disarmed by an initializing  *)
(* controller, and an armed motor without a control law never leaves the   *)
(* half armed.                                                             *)
ResultMarks == { ResultMark(e) : e \in FaultFlags }

C12_ControllerErrorDisarms ==
    [][ /\ \A i \in DOMAIN log' :
              log'[i] \in ResultMarks =>
              LET e == CHOOSE f \in FaultFlags : ResultMark(f) = log'[i] IN
                /\ last'.op = "tim_update_cb" /\ PwmHalf
                /\ i < Len(log') /\ log'[i + 1] = MOEMark(MOE \/ MOE')
                /\ IF /\ e = ERROR_CONTROLLER_INITIALIZING
                      /\ log'[i + 1] = MOEMark(FALSE)
                   THEN /\ \A j \in DOMAIN log' : j > i => log'[j] \notin FaultFlags
                        /\ is_armed_' /\ error_' = error_
                   ELSE /\ i + 1 < Len(log') /\ log'[i + 2] = e
                        /\ e \in error_' /\ ~is_armed_' /\ ~MOE'
                /\ (\A j \in DOMAIN log' : log'[j] # "get_output")
                       => e = ERROR_CONTROLLER_FAILED
        /\ (last'.op = "tim_update_cb" /\ PwmHalf /\ is_armed_
              /\ control_law_ = nullptr)
             => ~is_armed_' ]_vars

\* an initializing controller disarmed a motor whose outputs were live
C12_Witness ==
    /\ last.op = "tim_update_cb"
    /\ Has(ResultMark(ERROR_CONTROLLER_INITIALIZING)) /\ Has(MOEMark(TRUE))
    /\ WasArmed /\ ~is_armed_ /\ ERROR_CONTROLLER_INITIALIZING \in error_

\* an initializing controller was tolerated before the outputs went live
C12_Tolerated ==
    /\ last.op = "tim_update_cb"
    /\ Has(ResultMark(ERROR_CONTROLLER_INITIALIZING)) /\ Has(MOEMark(FALSE))
    /\ is_armed_


-----------------------------------------------------------------------------
(* The current of the cycle the last handler step served *)

\* lines 505-522 for the ADC codes the handler was called with
StepCurrent ==
    infer_missing_current(current_sensor_mask_,
                          adc_to_current(checked_adc(last.arg)))
StepCurrentValid == is_current_valid(StepCurrent)

\* the handler has passed the direction check (lines 469-474)
HandlerStep == last.op = "tim_update_cb" /\ ~Has(ERROR_TIMER_UPDATE_MISSED)

(* C13: when the handler serves the counting-down (DC calibration) half    *)
(* and the current of the cycle is invalid, the three offset estimates and *)
(* the elapsed calibration time are zero afterwards; in a current-sense    *)
(* half with invalid current, and in a cycle that ends at the missed       *)
(* update check, both are left as they were.                               *)
C13_InvalidCalibrationResets ==
    [][ (last'.op = "tim_update_cb" /\ ~StepCurrentValid') =>
          IF HandlerStep' /\ counting_down_'
          THEN DC_calib_' = <<0, 0, 0>> /\ dc_calib_running_since_' = 0
          ELSE UNCHANGED << DC_calib_, dc_calib_running_since_ >> ]_vars

\* C13 as stated: any cycle with invalid current resets the calibration
C13_InvalidAlwaysResets ==
    [][ (last'.op = "tim_update_cb" /\ ~StepCurrentValid') =>
          DC_calib_' = <<0, 0, 0>> /\ dc_calib_running_since_' = 0 ]_vars

\* a calibration that had been trusted (it gave a measurement) was reset by
\* a calibration half without valid current
C13_Witness ==
    /\ HandlerStep /\ counting_down_ /\ ~StepCurrentValid
    /\ DC_calib_ = <<0, 0, 0>> /\ dc_calib_running_since_ = 0
    /\ current_meas_ = <<3, -3, 0>>


-----------------------------------------------------------------------------
(* C14: a current-sense half that finds the elapsed calibration time below *)
(* the trust time, or an offset estimate whose magnitude is not below the  *)
(* ceiling, leaves current_meas_ unavailable on all three phases, whatever *)
(* the raw current; the elapsed time grows by one calibration period per   *)
(* calibration half with valid current and by nothing else, so a control   *)
(* law that is handed an available measurement is handed it after the      *)
(* trust time has accumulated since the last reset.                        *)
Unavailable == <<NaN, NaN, NaN>>

OffsetsBelowCeiling ==
    \A i \in 1..3 : ~isnan(DC_calib_[i])
                      /\ DC_calib_[i] < MaxDcCalib /\ 0 - DC_calib_[i] < MaxDcCalib

C14_UntrustedCalibrationHidesCurrent ==
    [][ /\ (HandlerStep' /\ ~counting_down_'
              /\ (dc_calib_running_since_ < DcCalibTrustTime \/ ~OffsetsBelowCeiling))
           => current_meas_' = Unavailable
        /\ (HasNext("on_measurement") /\ current_meas_' # Unavailable)
           => (dc_calib_running_since_' >= DcCalibTrustTime /\ OffsetsBelowCeiling')
        /\ dc_calib_running_since_' # dc_calib_running_since_
           => /\ HandlerStep' /\ counting_down_'
              /\ dc_calib_running_since_' =
                   IF StepCurrentValid'
                   THEN Min(dc_calib_running_since_ + 2, DcCalibTrustTime + CalibSlack)
                   ELSE 0 ]_vars

\* a valid raw current was hidden from the control law because the
\* calibration had not yet run for the trust time
C14_Witness ==
    /\ HandlerStep /\ ~counting_down_ /\ StepCurrentValid
    /\ StepCurrent # <<0, 0, 0>>
    /\ dc_calib_running_since_ > 0 /\ dc_calib_running_since_ < DcCalibTrustTime
    /\ current_meas_ = Unavailable /\ Has("on_measurement")

\* the same because an offset estimate had reached the ceiling
C14_OverCeiling ==
    /\ HandlerStep /\ ~counting_down_ /\ StepCurrentValid
    /\ dc_calib_running_since_ >= DcCalibTrustTime /\ ~OffsetsBelowCeiling
    /\ current_meas_ = Unavailable /\ Has("on_measurement")

\* an available measurement reached the control law
C14_Delivered ==
    /\ HandlerStep /\ Has("on_measurement") /\ current_meas_ # Unavailable
    /\ dc_calib_running_since_ >= DcCalibTrustTime


-----------------------------------------------------------------------------
(* C15: in a handler cycle the saturation error is raised once for every   *)
(* phase whose sensor is populated and whose code is neither the sentinel  *)
(* nor inside the window, and for no other phase: a phase without a sensor *)
(* (its mask bit clear) never raises it.                                   *)

\* bit i - 1 of the sensor mask: 110 is a board without a sensor on phase A
Populated(i) == (current_sensor_mask_ \div (2 ^ (i - 1))) % 2 = 1

C15_SaturationOnlyForPopulated ==
    [][ HandlerStep' =>
          Count(ERROR_CURRENT_SENSE_SATURATION)' =
              Cardinality({ i \in 1..3 : Populated(i)
                                           /\ adc_out_of_bounds(last'.arg[i]) })
      ]_vars


-----------------------------------------------------------------------------
(* C16: the handler replaces the current of the phase the sensor mask      *)
(* names as absent by the negated sum of the other two, and of no other    *)
(* phase; the cycle is valid exactly when the three values are available   *)
(* after that, so never with two or more phases unavailable, and with one  *)
(* only if it is the absent one.  A valid calibration half takes the three *)
(* values as the offsets, an invalid one resets them; a current-sense half *)
(* exposes a measurement only in a valid cycle.                            *)

\* lines 505-510 for the ADC codes the handler was called with
StepRaw == adc_to_current(checked_adc(last.arg))
NUnavailable == Cardinality({ i \in 1..3 : isnan(StepRaw[i]) })

\* Kirchhoff: phase i from the other two
NegatedSumOfOthers(c, i) ==
    LET j == (i % 3) + 1
        k == (j % 3) + 1
    IN  IF isnan(c[j]) \/ isnan(c[k]) THEN NaN ELSE 0 - (c[j] + c[k])

ByMask == [i \in 1..3 |-> IF Populated(i) THEN StepRaw[i]
                          ELSE NegatedSumOfOthers(StepRaw, i)]
ByMaskValid == \A i \in 1..3 : ~isnan(ByMask[i])

C16_ReconstructionByMask ==
    [][ HandlerStep' =>
          /\ (NUnavailable' >= 2 => ~ByMaskValid')
          /\ (NUnavailable' = 1 =>
                (ByMaskValid' <=> \E i \in 1..3 : isnan(StepRaw'[i]) /\ ~Populated(i)))
          /\ IF counting_down_'
             THEN IF ByMaskValid'
                  THEN DC_calib_' = ByMask' /\ dc_calib_running_since_' > 0
                  ELSE DC_calib_' = <<0, 0, 0>> /\ dc_calib_running_since_' = 0
             ELSE /\ current_meas_' # Unavailable => ByMaskValid'
                  /\ (ByMaskValid' /\ dc_calib_running_since_ >= DcCalibTrustTime
                        /\ OffsetsBelowCeiling)
                     => I_leak_' = ByMask'[1] + ByMask'[2] + ByMask'[3]
                                   - (DC_calib_[1] + DC_calib_[2] + DC_calib_[3])
      ]_vars

\* C16 as stated: one unavailable phase is always reconstructed and the
\* cycle valid, two or more make it invalid
C16_OneUnavailableIsReconstructed ==
    [][ (HandlerStep' /\ counting_down_') =>
          /\ NUnavailable' >= 2
               => DC_calib_' = <<0, 0, 0>> /\ dc_calib_running_since_' = 0
          /\ NUnavailable' = 1
               => /\ dc_calib_running_since_' > 0
                  /\ \A i \in 1..3 :
                       DC_calib_'[i] = IF isnan(StepRaw'[i])
                                       THEN NegatedSumOfOthers(StepRaw', i)
                                       ELSE StepRaw'[i] ]_vars

\* a board without a sensor on A took the current of A from B and C
C16_Witness ==
    /\ HandlerStep /\ counting_down_ /\ ~Populated(1)
    /\ isnan(StepRaw[1]) /\ StepRaw[2] = -1 /\ StepRaw[3] = 0
    /\ DC_calib_ = <<1, -1, 0>> /\ dc_calib_running_since_ > 0


-----------------------------------------------------------------------------
(* C17: when measure_phase_resistance returns, a resistance that is not    *)
(* finite (not a number, or infinite) comes with the result false and      *)
(* ERROR_PHASE_RESISTANCE_OUT_OF_RANGE set; the result is true only if the *)
(* motor was still armed when the polling ended and the resistance is      *)
(* finite.                                                                 *)
isfinite_quotient(q) == q[2] # 0

C17_ResistanceFiniteOrError ==
    [][ last'.op = "measure_phase_resistance" =>
          /\ ~isfinite_quotient(phase_resistance')
               => ~success' /\ ERROR_PHASE_RESISTANCE_OUT_OF_RANGE \in error_'
          /\ success' => success /\ isfinite_quotient(phase_resistance') ]_vars


-----------------------------------------------------------------------------
(* C18: run_calibration measures the resistance first for the high-current *)
(* and ACIM types and the inductance only after the resistance measurement *)
(* has returned true; it measures nothing for a gimbal motor and fails for *)
(* any other type.  It returns true, with is_calibrated_ set, exactly when *)
(* every measurement the type requires has returned true; when it returns  *)
(* false, and while it runs, is_calibrated_ is what it was.                *)
Returned(value) ==
    HasNext(IF value THEN "run_calibration: true" ELSE "run_calibration: false")

RunReturns(value) ==
    /\ Returned(value) /\ ~Returned(~value)
    /\ run' = NotCalibrating /\ pc' = "idle"
    /\ IF value THEN is_calibrated_' ELSE is_calibrated_' = is_calibrated_

RunCalls(m) ==
    /\ ~Returned(TRUE) /\ ~Returned(FALSE)
    /\ run'.pc = m /\ pc' = (IF m = "R" THEN "R_poll" ELSE "L_poll")
    /\ HasNext("arm") /\ control_law_' = (IF m = "R" THEN RLaw ELSE LLaw)
    /\ is_calibrated_' = is_calibrated_

C18_CalibrationSequence ==
    [][ /\ last'.op = "run_calibration" =>
             IF last'.arg \in {MOTOR_TYPE_HIGH_CURRENT, MOTOR_TYPE_ACIM}
             THEN RunCalls("R")
             ELSE IF last'.arg = MOTOR_TYPE_GIMBAL
             THEN RunReturns(TRUE) /\ ~HasNext("arm")
             ELSE IF last'.arg = MOTOR_TYPE_OTHER
             THEN RunReturns(FALSE) /\ ~HasNext("arm")
             ELSE IF last'.arg = "R"
             THEN IF success THEN RunCalls("L")
                  ELSE RunReturns(FALSE) /\ ~HasNext("arm")
             ELSE IF success THEN RunReturns(TRUE) ELSE RunReturns(FALSE)
        /\ last'.op # "run_calibration" =>
             /\ is_calibrated_' = is_calibrated_ /\ run' = run
             /\ ~Returned(TRUE) /\ ~Returned(FALSE)
        /\ pc' \in {"L_poll", "L_success", "L_disarm", "L_end"} => run'.pc = "L"
        /\ pc' \in {"R_poll", "R_success", "R_disarm", "R_end"} => run'.pc = "R"
      ]_vars

\* both measurements succeeded and the motor is calibrated
C18_Witness ==
    /\ last.op = "run_calibration" /\ last.arg = "L"
    /\ Has("run_calibration: true") /\ is_calibrated_ /\ success
    /\ isfinite_quotient(phase_resistance)
    /\ quotient_in(phase_inductance, InductanceMin, InductanceMax)

\* a calibrated motor stayed calibrated when the resistance measurement failed
C18_FailedAfterResistance ==
    /\ last.op = "run_calibration" /\ last.arg = "R"
    /\ Has("run_calibration: false") /\ is_calibrated_ /\ ~success


-----------------------------------------------------------------------------
(* C19: when the handler hands a measurement to the resistance or the      *)
(* inductance law while the bus voltage or the alpha current is not a      *)
(* number, on_measurement returns an error and the handler disarms the     *)
(* motor with it in the same cycle.                                        *)
MeasurementLaws == {RLaw, LLaw}

C19_UnavailableMeasurementFails ==
    [][ ( /\ HasNext("on_measurement") /\ control_law_ \in MeasurementLaws
          /\ (isnan(vbus_voltage) \/ isnan(current_meas_'[1])) )
        => /\ \E i \in DOMAIN log' :
                /\ log'[i] = "on_measurement"
                /\ i < Len(log') /\ log'[i + 1] \in FaultFlags
           /\ ~is_armed_' ]_vars


-----------------------------------------------------------------------------
(* C20: while an arm() call is between its first and its last statement    *)
(* the interrupt handler does not run: it hands no measurement to a        *)
(* control law that is installed and not yet reset, asks it for no output, *)
(* and never sees the new control law without the flag or the reset.  The  *)
(* handler itself never resets a control law, and an arm() call has reset  *)
(* its control law exactly once when it returns.                           *)
C20_ArmIsAtomicForHandler ==
    [][ /\ last'.op = "tim_update_cb" =>
             /\ arming.pc = "idle" /\ arming' = arming
             /\ ~HasNext("reset")
        /\ (HasNext("on_measurement") \/ HasNext("get_output")) =>
             arming.pc = "idle"
        /\ last'.op = "arm: return" =>
             /\ arming.resets = 1
             /\ control_law_' = arming.control_law /\ is_armed_'
      ]_vars

\* the update interrupt is pending while arm() has installed, on an armed
\* motor, a control law that still holds the state of its last run
C20_Witness ==
    /\ arming.pc = "reset" /\ PRIMASK /\ UIF
    /\ is_armed_ /\ control_law_ = RLaw /\ ~isnan(rlaw.test_mod_)

-----------------------------------------------------------------------------
\* C21: reset() of a measurement law clears all state of the run before it.
\* From the first measurement after a reset on, the law's output, its result
\* (get_resistance, get_inductance), its ripple sum and its start timestamp
\* are those of a law constructed at the reset with the same configuration
\* and given the same calls since.
C21_ResetClearsPriorRun ==
    /\ twin.rlaw_reset =>
          /\ ResistanceOutput(rlaw) = ResistanceOutput(twin.rlaw)
          /\ get_resistance(rlaw) = get_resistance(twin.rlaw)
    /\ (twin.llaw_reset /\ twin.llaw.attached_) =>
          /\ \A vbus \in LawVbus :
                InductanceOutput(llaw, vbus).mod = InductanceOutput(twin.llaw, vbus).mod
          /\ llaw.deltaI_ = twin.llaw.deltaI_
          /\ llaw.start_timestamp_ = twin.llaw.start_timestamp_
          /\ get_inductance(llaw) = get_inductance(twin.llaw)


-----------------------------------------------------------------------------
\* the first disarm of the step, and whether the compare registers were
\* written at log[k] by a tentative apply_pwm_timings
FirstDisarm == CHOOSE d \in DOMAIN log :
                  log[d] = "disarm" /\ \A k \in 1 .. d - 1 : log[k] # "disarm"
TentativeWrite(k) ==
    \E i \in 1 .. k - 1 :
        /\ log[i] = "apply_pwm_timings(tentative)"
        /\ \A j \in i + 1 .. k - 1 : log[j] \notin ApplyMarks

(* C22: a handler invocation that passes the missed-update check and       *)
(* disarms the motor runs to its end all the same: a current-sense half    *)
(* stores the measurement and the leakage of the cycle, a PWM-update half  *)
(* updates the DC calibration, stores a zero bus current (the disarm came  *)
(* before the store) and ends with the brake resistor update.  After the first disarm of the invocation        *)
(* nothing arms the motor, sets the automatic output enable or writes the  *)
(* compare registers for a non-tentative commit, and the invocation ends   *)
(* disarmed with the bit clear.  A PWM-update half without a non-tentative *)
(* commit leaves the 50% values in the compare registers.                  *)
C22_FaultLetsCycleFinish ==
    [][ /\ (HandlerStep' /\ HasNext("disarm")) =>
              /\ ~is_armed_' /\ ~AOE'
              /\ \A k \in DOMAIN log' :
                    k > FirstDisarm' =>
                       /\ log'[k] \notin {"arm", "AOE", "apply_pwm_timings"}
                       /\ log'[k] = "CCR" => TentativeWrite(k)'
              /\ IF counting_down_'
                 THEN LET u == dc_calib_step(Cur, StepCurrent', StepCurrentValid')
                      IN  /\ DC_calib_' = u.DC_calib_
                          /\ dc_calib_running_since_' = u.dc_calib_running_since_
                          /\ log'[FirstDisarm' - 1] # ERROR_I_BUS_OUT_OF_RANGE =>
                                I_bus_' = 0
                          /\ log'[Len(log')] = "update_brake_current"
                          /\ Count("update_brake_current")' = 2 * Count("disarm")' + 1
                 ELSE LET u == measure_current(Cur, StepCurrent', StepCurrentValid')
                      IN  /\ current_meas_' = u.current_meas_
                          /\ I_leak_' = u.I_leak_
        /\ (HandlerStep' /\ counting_down_' /\ ~HasNext("apply_pwm_timings")) =>
              CCR' = HalfTimings ]_vars

\* the tentative write found an update event, on a motor with live output:
\* the half went on to its end and left the neutral values
C22_Witness ==
    /\ HandlerStep /\ counting_down_ /\ WasArmed
    /\ Has(ERROR_CONTROL_DEADLINE_MISSED) /\ ~Has("apply_pwm_timings")
    /\ log[Len(log)] = "update_brake_current"
    /\ CCR = HalfTimings /\ ~is_armed_ /\ ~AOE /\ ~MOE

\* a saturated sample disarmed a motor that had a measurement: the
\* current-sense half went on and marked the measurement unavailable
C22_Saturated ==
    /\ HandlerStep /\ ~counting_down_ /\ WasArmed
    /\ Has(ERROR_CURRENT_SENSE_SATURATION)
    /\ current_meas_ = Unavailable /\ dc_calib_running_since_ >= DcCalibTrustTime


-----------------------------------------------------------------------------
\* the calibration routine that made the last step has returned
MeasureReturned == last.op \in {"measure_phase_resistance", "measure_phase_inductance"}

(* C23: when measure_phase_resistance or measure_phase_inductance returns  *)
(* the motor is disarmed and no control law is installed, whatever ended   *)
(* the loop; and while no routine is running the handler calls neither     *)
(* on_measurement nor get_output: the routine's control law is not used    *)
(* after the routine has returned.                                         *)
C23_ReturnsDisarmed ==
    [][ /\ MeasureReturned' =>
              /\ pc' = "idle"
              /\ ~is_armed_' /\ control_law_' = nullptr /\ ~AOE' /\ ~MOE'
        /\ (pc = "idle" /\ last'.op = "tim_update_cb") =>
              /\ ~HasNext("on_measurement") /\ ~HasNext("get_output")
              /\ rlaw' = rlaw /\ llaw' = llaw
        /\ pc' = "idle" => control_law_' \notin {RLaw, LLaw} ]_vars

\* the resistance measurement succeeded: the motor was armed until the
\* routine disarmed it, and is left disarmed with a finite resistance stored
C23_Witness ==
    /\ last.op = "measure_phase_resistance" /\ success
    /\ ~is_armed_ /\ control_law_ = nullptr
    /\ quotient_in(phase_resistance, 1, 1)

\* arm() did not set the flag: the brake resistor was disarmed all along
C23_NeverArmed ==
    /\ last.op = "measure_phase_inductance" /\ ~success /\ ~brake_resistor_armed
    /\ error_ = {ERROR_PHASE_INDUCTANCE_OUT_OF_RANGE}
    /\ ~is_armed_ /\ control_law_ = nullptr

\* the axis was asked for another state
C23_Cancelled ==
    /\ MeasureReturned /\ success /\ requested_state_ # AXIS_STATE_UNDEFINED
    /\ ~is_armed_ /\ control_law_ = nullptr

\* the handler disarmed the motor on the law's error
C23_SelfDisarmed ==
    /\ last.op = "measure_phase_resistance" /\ ~success
    /\ ERROR_PHASE_RESISTANCE_OUT_OF_RANGE \in error_
    /\ ~is_armed_ /\ control_law_ = nullptr

=============================================================================
